---------------------------- MODULE Spec2Model ----------------------------
(***************************************************************************)
(* A model of the reduction scheduling utilities of                        *)
(* csrc/scheduler/reduction_utils.cpp:                                      *)
(*   sortAndRFactor, scheduleReductionTV, multiReductionInliner and        *)
(*   projectPersistentBuffers.                                              *)
(*                                                                         *)
(* Axis positions are the code's 0-based positions; Axis(tv, i) reads the  *)
(* axis at code position i of an axis list held as a TLA+ sequence.        *)
(***************************************************************************)
EXTENDS Integers, Sequences, FiniteSets, TLC

(***************************************************************************)
(* Bounds of the model.                                                    *)
(***************************************************************************)
\* longest axis list handed to sortAndRFactor on its own
MaxAxes == 2
\* largest unroll factor / batch count of the scheduling parameters
MaxFactor == 2
\* most axes of a node handed to scheduleReductionTV
MaxDims == 3

(***************************************************************************)
(* Program constants.                                                      *)
(***************************************************************************)
IntMax == 2147483647
IntMin == -IntMax - 1

(***************************************************************************)
(* Parallel types (ParallelType) and their predicates.                     *)
(***************************************************************************)
BlockDims == {"BIDx", "BIDy"}
ThreadDims == {"TIDx", "TIDy"}
UnrollTypes == {"Unroll", "Vectorize", "MisalignedVectorize"}
ParallelTypes ==
    {"Serial", "Unswitch", "Group"} \cup UnrollTypes \cup BlockDims \cup ThreadDims

isParallelTypeBlockDim(pt) == pt \in BlockDims
isParallelTypeThreadDim(pt) == pt \in ThreadDims
isParallelTypeThread(pt) == isParallelTypeBlockDim(pt) \/ isParallelTypeThreadDim(pt)

(***************************************************************************)
(* An axis (IterDomain).                                                   *)
(*   red    isReduction()                                                  *)
(*   bcast  isBroadcast() || isImplicitBroadcast()                         *)
(*   const  extent()->isConstScalar()                                      *)
(*   one    extent()->isOneInt()                                           *)
(*   pt     getParallelType()                                              *)
(*   rf     isRFactorProduct()                                             *)
(*   root   the position, at entry, of the axis this one was split from    *)
(***************************************************************************)
MkAxis(red, bcast, const, one, pt, rf, root) ==
    [red |-> red, bcast |-> bcast, const |-> const, one |-> one,
     pt |-> pt, rf |-> rf, root |-> root]

Axis(tv, i) == tv[i + 1]
nDims(tv) == Len(tv)
Positions(tv) == 0 .. (Len(tv) - 1)

isThread(id) == isParallelTypeThread(id.pt)
isBlockDim(id) == isParallelTypeBlockDim(id.pt)
isThreadDim(id) == isParallelTypeThreadDim(id.pt)

\* IterDomain::parallelize on the axis at position i
Parallelize(tv, i, pt) == [tv EXCEPT ![i + 1].pt = pt]


(***************************************************************************)
(* Helpers on sets of positions.                                           *)
(***************************************************************************)
\* the positions of S in increasing order
RECURSIVE Ascending(_)
Ascending(S) ==
    IF S = {} THEN << >>
    ELSE LET m == CHOOSE x \in S : \A y \in S : x <= y
         IN  << m >> \o Ascending(S \ {m})

\* the sequence s without the entries that are -1
Kept(s) == SelectSeq(s, LAMBDA x : x # -1)

(***************************************************************************)
(* idPos: the numeric sort key of an axis.                                 *)
(***************************************************************************)
idPos(id) ==
    IF id.red /\ id.pt \in UnrollTypes THEN IntMax
    ELSE IF id.red /\ id.const THEN IntMax - 1
    ELSE IF id.red /\ id.pt = "Unswitch" THEN IntMax - 2
    ELSE IF id.red /\ isThread(id) THEN IntMax - 3
    ELSE IF id.bcast THEN IntMax - 4
    ELSE IF ~id.red /\ id.pt \in UnrollTypes THEN IntMax - 5
    ELSE IF ~id.red /\ id.pt = "Unswitch" THEN IntMax - 6
    ELSE IF id.red /\ ~id.const THEN IntMax - 7
    ELSE IF ~id.red /\ isBlockDim(id) THEN IntMin
    ELSE IF ~id.red /\ isThreadDim(id) THEN IntMin + 1
    ELSE IF ~id.red /\ id.const THEN IntMin + 2
    ELSE IF ~id.red /\ ~id.const THEN IntMin + 3
    ELSE 0

\* (mutant) the comparison the other way round
id_lt_reversed(id0, id1) == idPos(id0) > idPos(id1)

\* id_lt: whether id0 should be before id1
id_lt(id0, id1) == idPos(id0) < idPos(id1)

(***************************************************************************)
(* std::sort(domain.begin(), domain.end(), id_lt()).  The sorted vector    *)
(* holds the axes of tv, named by their old positions (the IterDomain      *)
(* pointers).  std::sort leaves the order of equivalent elements           *)
(* unspecified.  Two implementations are modelled: one that keeps          *)
(* equivalent elements in their declared order (the insertion sort a       *)
(* library uses on a short range) and one that leaves them reversed.       *)
(***************************************************************************)
TieOrders == {"declared", "reversed"}

\* whether the axis at c comes before the axis at d in the sorted vector
ComesBefore(tv, tie, c, d) ==
    \/ id_lt(Axis(tv, c), Axis(tv, d))
    \/ /\ ~id_lt(Axis(tv, d), Axis(tv, c))
       /\ IF tie = "declared" THEN c < d ELSE c > d

\* the sorted vector, built front to back
RECURSIVE SortedOrder(_, _, _)
SortedOrder(tv, tie, S) ==
    IF S = {} THEN << >>
    ELSE LET c == CHOOSE x \in S : \A d \in S \ {x} : ComesBefore(tv, tie, x, d)
         IN  << c >> \o SortedOrder(tv, tie, S \ {c})

StdSort(tv) == {SortedOrder(tv, tie, Positions(tv)) : tie \in TieOrders}

(***************************************************************************)
(* TensorView::reorder(old2new): the axis at old position o moves to       *)
(* position old2new[o] (a negative position counts from the end); the      *)
(* axes the map does not name keep their relative order in the positions   *)
(* left free.                                                              *)
(***************************************************************************)
WrapPos(n, v) == IF v < 0 THEN v + n ELSE v

Reorder(tv, old2new) ==
    LET n == Len(tv)
        mapped == DOMAIN old2new
        taken == {WrapPos(n, old2new[o]) : o \in mapped}
        freeNew == (0 .. (n - 1)) \ taken
        restOld == Ascending((0 .. (n - 1)) \ mapped)
        rank(j) == Cardinality({k \in freeNew : k < j}) + 1
        new2old(j) ==
            IF j \in taken
            THEN CHOOSE o \in mapped : WrapPos(n, old2new[o]) = j
            ELSE IF rank(j) <= Len(restOld) THEN restOld[rank(j)] ELSE -1
        slots == Kept([k \in 1 .. n |-> new2old(k - 1)])
    IN  [k \in 1 .. Len(slots) |-> Axis(tv, slots[k])]

(***************************************************************************)
(* ir_utils::rfactorHelper(tv, axes): the staged (rfactor) producer keeps  *)
(* every axis, the staged ones as reductions and the other reductions as   *)
(* iteration axes; the original node keeps the axes that were not staged.  *)
(***************************************************************************)
InSeq(x, s) == \E k \in 1 .. Len(s) : s[k] = x

RFactorProducer(tv, axes) ==
    [k \in 1 .. Len(tv) |->
        IF InSeq(k - 1, axes) THEN [tv[k] EXCEPT !.rf = TRUE]
        ELSE IF tv[k].red THEN [tv[k] EXCEPT !.red = FALSE, !.rf = TRUE]
        ELSE tv[k]]

RFactorConsumer(tv, axes) ==
    LET keep == Kept([k \in 1 .. Len(tv) |-> IF InSeq(k - 1, axes) THEN -1 ELSE k - 1])
    IN  [k \in 1 .. Len(keep) |-> Axis(tv, keep[k])]

(***************************************************************************)
(* sortAndRFactor, first half: the reorder map from the sorted vector.     *)
(***************************************************************************)
\* domain_pos[domain[axis_i]] = axis_i
DomainPos(domain) ==
    [p \in {domain[k] : k \in 1 .. Len(domain)} |->
        (CHOOSE k \in 1 .. Len(domain) :
            domain[k] = p /\ \A q \in (k + 1) .. Len(domain) : domain[q] # p) - 1]

\* (mutant) axes looked up by their sort key instead of by themselves
AxisKeyByIdPos(tv, old_i) == idPos(Axis(tv, old_i))

\* the key under which sortAndRFactor looks an axis up: the axis itself
AxisKey(tv, old_i) == old_i

\* reorder_map[old_i] = domain_pos.find(reference_tv->axis(old_i))->second
ReorderMap(tv, domain) ==
    LET domain_pos == DomainPos([k \in 1 .. Len(domain) |-> AxisKey(tv, domain[k])])
    IN  [old_i \in Positions(tv) |-> domain_pos[AxisKey(tv, old_i)]]

(***************************************************************************)
(* sortAndRFactor, second half: the axes to stage.                         *)
(***************************************************************************)
RFactorCandidates(tv) ==
    Kept([k \in 1 .. Len(tv) |->
            IF tv[k].red /\ ~isThread(tv[k]) THEN k - 1 ELSE -1])

RFactorNoUnswitch(tv) ==
    Kept([k \in 1 .. Len(tv) |->
            IF tv[k].red /\ ~isThread(tv[k])
               /\ ~(tv[k].pt = "Unswitch" /\ tv[k].one)
            THEN k - 1 ELSE -1])

ReductionDims(tv) == Cardinality({k \in 1 .. Len(tv) : tv[k].red})

\* (mutant) the unswitch axes of extent one never staged
RFactorAxesNeverUnswitch(tv) == RFactorNoUnswitch(tv)

\* (mutant) every candidate staged, whether or not all reductions are
RFactorAxesAllCandidates(tv) == RFactorCandidates(tv)

RFactorAxes(tv) ==
    IF ReductionDims(tv) = Len(RFactorCandidates(tv))
    THEN RFactorNoUnswitch(tv)
    ELSE RFactorCandidates(tv)


(***************************************************************************)
(* State.                                                                  *)
(*   pc               the position of the operation under way              *)
(*   rparams          the ReductionParams handed to scheduleReductionTV    *)
(*   has_iter_axis    scheduleReductionTV's has_iter_axis                  *)
(*   entry_tv         the axes of reduction_tv when the operation started  *)
(*   reduction_tv     the axes of the node being scheduled                 *)
(*   sort_input       the axes handed to sortAndRFactor                    *)
(*   reorder_map      sortAndRFactor's reorder_map (old -> new position)   *)
(*   canonical_tv     the axes right after sortAndRFactor's reorder        *)
(*   rfactor_axes     the positions handed to rfactorHelper                *)
(*   reduction_rf_tv  the axes of the staged node that is returned         *)
(*   failure          the failed assertion, "none" while there is none     *)
(* and, for multiReductionInliner,                                         *)
(*   fusion           what the call was given and the facts of the graph   *)
(*                    it reads: reference_tv, reduction_tv, reduction_tvs, *)
(*                    cached_inputs, cached_outputs, dummy_outputs, the    *)
(*                    siblings, uses, memory types and shapes of the nodes *)
(*   domains          the axes of every node of the graph                  *)
(*   outputs          the output list of the graph (Fusion::outputs)       *)
(*   rfactored        for every reduction node, the rfactorHelper call     *)
(*                    made on it: the axes handed over and the node's axes *)
(*                    at the call                                          *)
(*   are_unrolled     the nodes that may carry unroll / vectorization      *)
(*   allreduce_tvs    the nodes handed to the propagation of Group         *)
(* and, for projectPersistentBuffers,                                      *)
(*   persistent_info  what scheduler_utils::persistentBuffers returned     *)
(*   graph            the nodes of the fusion with their definitions       *)
(*   buffer_i         the index of the loop over the persistent buffers    *)
(*   dummy_outputs    the dummy outputs made so far                        *)
(***************************************************************************)
VARIABLES pc, rparams, has_iter_axis, entry_tv, reduction_tv, sort_input,
          reorder_map, canonical_tv, rfactor_axes, reduction_rf_tv, failure,
          fusion, domains, outputs, rfactored, are_unrolled, allreduce_tvs,
          persistent_info, graph, buffer_i, dummy_outputs

schedVars == << rparams, has_iter_axis, entry_tv, reduction_tv, sort_input,
                reorder_map, canonical_tv, rfactor_axes, reduction_rf_tv, failure >>

inlinerVars == << fusion, domains, outputs, rfactored, are_unrolled, allreduce_tvs >>

projectorVars == << persistent_info, graph, buffer_i, dummy_outputs >>

vars == << pc, schedVars, inlinerVars, projectorVars >>

\* no call of projectPersistentBuffers under way
NoProjector ==
    /\ persistent_info = [persistent_buffers |-> << >>]
    /\ graph = << >>
    /\ buffer_i = 0
    /\ dummy_outputs = << >>

\* no call of multiReductionInliner under way
NoInliner ==
    /\ fusion = [reduction_tvs |-> << >>]
    /\ domains = << >>
    /\ outputs = << >>
    /\ rfactored = << >>
    /\ are_unrolled = {}
    /\ allreduce_tvs = << >>

\* no call of scheduleReductionTV or sortAndRFactor under way
NoScheduler ==
    /\ has_iter_axis = FALSE
    /\ entry_tv = << >>
    /\ reduction_tv = << >>
    /\ sort_input = << >>
    /\ reorder_map = << >>
    /\ canonical_tv = << >>
    /\ rfactor_axes = << >>
    /\ reduction_rf_tv = << >>
    /\ failure = "none"

(***************************************************************************)
(* sortAndRFactor(reference_tv), as one step.                              *)
(***************************************************************************)
SortAndRFactor ==
    /\ pc = "sort"
    /\ UNCHANGED << inlinerVars, projectorVars >>
    /\ \E domain \in StdSort(reduction_tv) :
       \E map \in {ReorderMap(reduction_tv, domain)} :
       \E reordered \in {Reorder(reduction_tv, map)} :
       \E axes \in {RFactorAxes(reordered)} :
            /\ sort_input' = reduction_tv
            /\ reorder_map' = map
            /\ canonical_tv' = reordered
            /\ rfactor_axes' = axes
            /\ reduction_rf_tv' = RFactorProducer(reordered, axes)
            /\ reduction_tv' = RFactorConsumer(reordered, axes)
    /\ pc' = "sorted"
    /\ UNCHANGED << rparams, has_iter_axis, entry_tv, failure >>

(***************************************************************************)
(* sortAndRFactor on its own: any axis list of up to MaxAxes axes.         *)
(***************************************************************************)
\* extents as << isConstScalar, isOneInt >>
Extents == {<< FALSE, FALSE >>, << TRUE, FALSE >>, << TRUE, TRUE >>}

\* one hardware dimension of each kind is enough to tell the classes apart
SortTypes == ParallelTypes \ {"BIDy", "TIDy"}

SortAxes ==
    {MkAxis(TRUE, FALSE, e[1], e[2], pt, FALSE, 0) :
        e \in Extents, pt \in SortTypes}
    \cup {MkAxis(FALSE, FALSE, c, FALSE, pt, FALSE, 0) :
        c \in BOOLEAN, pt \in SortTypes}
    \cup {MkAxis(FALSE, TRUE, FALSE, FALSE, pt, FALSE, 0) :
        pt \in {"Serial", "Unroll", "BIDx"}}

AxisLists(n) == UNION {[1 .. k -> SortAxes] : k \in 0 .. n}

NoParams == [schedule_3D |-> FALSE]

InitSort ==
    /\ pc = "sort"
    /\ reduction_tv \in AxisLists(MaxAxes)
    /\ entry_tv = reduction_tv
    /\ rparams = NoParams
    /\ has_iter_axis = FALSE
    /\ sort_input = << >>
    /\ reorder_map = << >>
    /\ canonical_tv = << >>
    /\ rfactor_axes = << >>
    /\ reduction_rf_tv = << >>
    /\ failure = "none"
    /\ NoInliner
    /\ NoProjector

NextSort == SortAndRFactor

SpecSort == InitSort /\ [][NextSort]_vars


(***************************************************************************)
(* TensorView::split(axis, factor, inner_split).  The axis is replaced by  *)
(* an outer and an inner axis, both serial; the factor is the extent of    *)
(* the inner axis (inner_split) or of the outer one.  A factor is known by *)
(* what the sort and the staging read of an extent: whether it is a        *)
(* constant and whether it is the integer one.                             *)
(***************************************************************************)
IntFactor(k) == [const |-> TRUE, one |-> (k = 1)]
\* NamedScalar::getParallelDim(ptype): blockDim.x and the like
ParallelDimFactor == [const |-> FALSE, one |-> FALSE]
\* rparams.lparams.bdimx() / bdimy(): a block size fixed at compile time
StaticBlockSize == [const |-> TRUE, one |-> FALSE]

Split(tv, axis, factor, inner_split) ==
    LET a == Axis(tv, axis)
        byFactor == [a EXCEPT !.const = factor.const, !.one = factor.one,
                              !.pt = "Serial"]
        remainder == [a EXCEPT !.const = a.const /\ factor.const, !.one = FALSE,
                               !.pt = "Serial"]
        pair == IF inner_split THEN << remainder, byFactor >>
                ELSE << byFactor, remainder >>
    IN  SubSeq(tv, 1, axis) \o pair \o SubSeq(tv, axis + 2, Len(tv))

(***************************************************************************)
(* The split helpers of scheduleReductionTV.                               *)
(***************************************************************************)
vectorize(tv, axis, factor) ==
    Parallelize(Split(tv, axis, IntFactor(factor), TRUE), axis + 1, "Vectorize")

inner_parallel(tv, axis, ptype) ==
    Parallelize(Split(tv, axis, ParallelDimFactor, TRUE), axis + 1, ptype)

inner_parallel_static(tv, axis, ptype, factor) ==
    Parallelize(Split(tv, axis, factor, TRUE), axis + 1, ptype)

inner_unswitch(tv, axis) ==
    Parallelize(Split(tv, axis, IntFactor(1), TRUE), axis + 1, "Unswitch")

inner_unroll(tv, axis, factor) ==
    Parallelize(Split(tv, axis, IntFactor(factor), TRUE), axis + 1, "Unroll")

outer_parallel(tv, axis, ptype) ==
    Parallelize(Split(tv, axis, ParallelDimFactor, FALSE), axis, ptype)

outer_unswitch(tv, axis) ==
    Parallelize(Split(tv, axis, IntFactor(1), FALSE), axis, "Unswitch")

outer_unroll(tv, axis, factor) ==
    Parallelize(Split(tv, axis, IntFactor(factor), FALSE), axis, "Unroll")

(***************************************************************************)
(* scheduleReductionTV: the axis positions and the regime.                 *)
(***************************************************************************)
iter_axis == 0
outer_reduce_axis(r) == IF r.schedule_3D THEN 1 ELSE 0
inner_reduce_axis(r, has_iter) ==
    IF r.schedule_3D THEN 2 ELSE IF has_iter THEN 1 ELSE 0

is_outer_grid_persistence(r) ==
    r.persistent_kernel /\ r.cross_grid_inner_reduction /\ ~r.fastest_dim

Max(a, b) == IF a >= b THEN a ELSE b

MinDims(r, has_iter) ==
    Max(iter_axis, Max(outer_reduce_axis(r), inner_reduce_axis(r, has_iter)))

(***************************************************************************)
(* The assertions at entry, in the order the code makes them: the first    *)
(* one that fails, "none" when all hold.                                   *)
(***************************************************************************)
\* (mutant) the two vectorization assertions left out
EntryFailureNoVectorizeCheck(r, tv, has_iter, multiple_reds_per_blk) ==
    IF ~(nDims(tv) > MinDims(r, has_iter))
    THEN "Issue in scheduling reduction tv"
    ELSE IF multiple_reds_per_blk /\ ~has_iter
    THEN "Multiple reductions requires an iter domain, but one wasn't found."
    ELSE IF r.unroll_factor_iter_dom > 1 /\ ~has_iter
    THEN "Unrolling on iter domain requires an iter domain."
    ELSE "none"

EntryFailure(r, tv, has_iter, multiple_reds_per_blk) ==
    IF ~(nDims(tv) > MinDims(r, has_iter))
    THEN "Issue in scheduling reduction tv"
    ELSE IF r.fastest_dim /\ r.vectorize_iter_dom
    THEN "Cannot vectorize iteration domain on inner reductions."
    ELSE IF ~r.fastest_dim /\ r.vectorize_inner_reduction
    THEN "Cannot vectorize reduction domain on outer reductions."
    ELSE IF multiple_reds_per_blk /\ ~has_iter
    THEN "Multiple reductions requires an iter domain, but one wasn't found."
    ELSE IF r.unroll_factor_iter_dom > 1 /\ ~has_iter
    THEN "Unrolling on iter domain requires an iter domain."
    ELSE "none"

(***************************************************************************)
(* The inner reduction axis.                                               *)
(***************************************************************************)
\* outer grid persistence
InnerOuterGridPersistence(tv, r, reduction_axis) ==
    LET t1 == inner_parallel_static(
                  tv, reduction_axis, r.block_dim_inner_reduction, StaticBlockSize)
        t2 == Split(t1, reduction_axis,
                    IntFactor(r.batches_per_block_inner_reduction), TRUE)
        t3 == Parallelize(t2, reduction_axis, r.grid_dim_inner_reduction)
    IN  IF r.batches_per_block_inner_reduction = r.unroll_factor_inner_reduction
        THEN outer_unswitch(t3, reduction_axis + 1)
        ELSE outer_unswitch(
                 Split(t3, reduction_axis + 1,
                       IntFactor(r.unroll_factor_inner_reduction), TRUE),
                 reduction_axis + 2)

\* Persistent format:
\* [Grid Split, persistent buffer, unswitch, unroll, thread dim, vectorize]
InnerPersistent(tv, r, axis) ==
    LET t1 == IF r.vectorize_inner_reduction
              THEN vectorize(tv, axis, r.unroll_factor_inner_reduction)
              ELSE tv
        i1 == axis
        t2 == IF r.cross_grid_inner_reduction
              THEN outer_parallel(t1, i1, r.grid_dim_inner_reduction)
              ELSE t1
        i2 == IF r.cross_grid_inner_reduction THEN i1 + 1 ELSE i1
        t3 == Split(t2, i2, IntFactor(r.batches_per_block_inner_reduction), FALSE)
        i3 == i2 + 1
        t4 == outer_unswitch(t3, i3)
        i4 == i3 + 1
        unrolled == ~r.vectorize_inner_reduction /\ r.unroll_factor_inner_reduction > 1
        t5 == IF unrolled
              THEN outer_unroll(t4, i4, r.unroll_factor_inner_reduction)
              ELSE t4
        i5 == IF unrolled THEN i4 + 1 ELSE i4
    IN  Parallelize(t5, i5, r.block_dim_inner_reduction)

\* (mutant) the unswitch split made before the unroll split
InnerNonPersistentUnswitchFirst(tv, r, axis) ==
    LET t1 == IF r.vectorize_inner_reduction
              THEN vectorize(tv, axis, r.unroll_factor_inner_reduction)
              ELSE tv
        t2 == IF r.cross_block_inner_reduction
              THEN inner_parallel(t1, axis, r.block_dim_inner_reduction)
              ELSE t1
        t3 == inner_unswitch(t2, axis)
        t4 == IF ~r.vectorize_inner_reduction /\ r.unroll_factor_inner_reduction > 1
              THEN inner_unroll(t3, axis, r.unroll_factor_inner_reduction)
              ELSE t3
    IN  IF r.cross_grid_inner_reduction
        THEN IF r.split_grid_dim_inner_reduction
             THEN outer_parallel(t4, axis, r.grid_dim_inner_reduction)
             ELSE Parallelize(t4, axis, r.grid_dim_inner_reduction)
        ELSE t4

\* Non-persistent format:
\* [Grid Split, Remainder, unswitch, unroll, thread dim, vectorize]
InnerNonPersistent(tv, r, axis) ==
    LET t1 == IF r.vectorize_inner_reduction
              THEN vectorize(tv, axis, r.unroll_factor_inner_reduction)
              ELSE tv
        t2 == IF r.cross_block_inner_reduction
              THEN inner_parallel(t1, axis, r.block_dim_inner_reduction)
              ELSE t1
        t3 == IF ~r.vectorize_inner_reduction /\ r.unroll_factor_inner_reduction > 1
              THEN inner_unroll(t2, axis, r.unroll_factor_inner_reduction)
              ELSE t2
        t4 == inner_unswitch(t3, axis)
    IN  IF r.cross_grid_inner_reduction
        THEN IF r.split_grid_dim_inner_reduction
             THEN outer_parallel(t4, axis, r.grid_dim_inner_reduction)
             ELSE Parallelize(t4, axis, r.grid_dim_inner_reduction)
        ELSE t4

\* (mutant) blockDim.y checked only after the first split
InnerReductionLateAssert(tv, r, axis) ==
    IF is_outer_grid_persistence(r)
    THEN IF ~r.static_bdimy
         THEN [tv |-> inner_parallel_static(
                          tv, axis, r.block_dim_inner_reduction, StaticBlockSize),
               failure |-> "blockDim.y must be static"]
         ELSE [tv |-> InnerOuterGridPersistence(tv, r, axis), failure |-> "none"]
    ELSE IF r.persistent_kernel
    THEN [tv |-> InnerPersistent(tv, r, axis), failure |-> "none"]
    ELSE [tv |-> InnerNonPersistent(tv, r, axis), failure |-> "none"]

\* the three regimes of the inner reduction axis; the result is the axis
\* list and the assertion that failed ("none" when none did)
InnerReductionSchedule(tv, r, axis) ==
    IF is_outer_grid_persistence(r)
    THEN IF ~r.static_bdimy
         THEN [tv |-> tv, failure |-> "blockDim.y must be static"]
         ELSE [tv |-> InnerOuterGridPersistence(tv, r, axis), failure |-> "none"]
    ELSE IF r.persistent_kernel
    THEN [tv |-> InnerPersistent(tv, r, axis), failure |-> "none"]
    ELSE [tv |-> InnerNonPersistent(tv, r, axis), failure |-> "none"]

(***************************************************************************)
(* The outer reduction axis (3D scheduling).  o holds the parameters of    *)
(* the outer reduction.                                                    *)
(***************************************************************************)
\* Persistent format: [Grid Split, persistent buffer, unroll, thread dim]
OuterPersistent(tv, o, axis) ==
    LET t1 == IF o.cross_grid_outer_reduction
              THEN outer_parallel(tv, axis, o.grid_dim_outer_reduction)
              ELSE tv
        i1 == IF o.cross_grid_outer_reduction THEN axis + 1 ELSE axis
        t2 == Split(t1, i1, IntFactor(o.batches_per_block_outer_reduction), FALSE)
        i2 == i1 + 1
        t3 == IF o.unroll_factor_outer_reduction > 1
              THEN outer_unroll(t2, i2, o.unroll_factor_outer_reduction)
              ELSE t2
        i3 == IF o.unroll_factor_outer_reduction > 1 THEN i2 + 1 ELSE i2
    IN  Parallelize(t3, i3, o.block_dim_outer_reduction)

\* Non-persistent format: [Grid Split, Remainder, unroll, thread dim]
OuterNonPersistent(tv, o, axis) ==
    LET t1 == IF o.cross_block_outer_reduction
              THEN inner_parallel(tv, axis, o.block_dim_outer_reduction)
              ELSE tv
        t2 == IF o.unroll_factor_outer_reduction > 1
              THEN inner_unroll(t1, axis, o.unroll_factor_outer_reduction)
              ELSE t1
    IN  IF o.cross_grid_outer_reduction
        THEN outer_parallel(t2, axis, o.grid_dim_outer_reduction)
        ELSE t2

(***************************************************************************)
(* The iteration domain: [Grid Split, unswitch, unroll, thread dim,        *)
(* vectorize].  it holds the parameters only this part reads.  The result  *)
(* is the axis list and the assertion that failed on the way ("none").     *)
(***************************************************************************)
IterThreadDim(tv, r, it) ==
    IF ~isParallelTypeThread(it.block_dim_iter_dom) THEN tv
    ELSE IF is_outer_grid_persistence(r)
    THEN inner_parallel_static(tv, iter_axis, it.block_dim_iter_dom, StaticBlockSize)
    ELSE inner_parallel(tv, iter_axis, it.block_dim_iter_dom)

IterGridDim(tv, it) ==
    IF ~isParallelTypeThread(it.grid_dim_iter_dom) THEN tv
    ELSE IF it.split_grid_dim_iter_dom_outer
    THEN outer_parallel(tv, iter_axis, it.grid_dim_iter_dom)
    ELSE IF it.split_grid_dim_iter_dom_inner
    THEN inner_parallel(tv, iter_axis, it.grid_dim_iter_dom)
    ELSE Parallelize(tv, iter_axis, it.grid_dim_iter_dom)

IterDomainSchedule(tv, r, it) ==
    LET t1 == IF r.vectorize_iter_dom
              THEN vectorize(tv, iter_axis, r.unroll_factor_iter_dom)
              ELSE tv
        t2 == IterThreadDim(t1, r, it)
        t3 == IF ~r.vectorize_iter_dom /\ r.unroll_factor_iter_dom > 1
              THEN inner_unroll(t2, iter_axis, r.unroll_factor_iter_dom)
              ELSE t2
        t4 == IF r.unroll_factor_iter_dom > 1 /\ ~is_outer_grid_persistence(r)
              THEN inner_unswitch(t3, iter_axis)
              ELSE t3
    IN  IF /\ isParallelTypeThread(it.block_dim_iter_dom)
           /\ is_outer_grid_persistence(r)
           /\ ~it.static_bdimx
        THEN [tv |-> t1, failure |-> "blockDim.x must be static"]
        ELSE [tv |-> IterGridDim(t4, it), failure |-> "none"]

(***************************************************************************)
(* The post-processing under outer grid persistence: the vectorized axis   *)
(* is moved to the innermost position.                                     *)
(***************************************************************************)
\* vec_id_cur_pos after the loop: the last vectorized position, -1 if none
VecIdCurPos(tv) ==
    LET vec == {i \in Positions(tv) : Axis(tv, i).pt = "Vectorize"}
    IN  IF vec = {} THEN -1 ELSE CHOOSE i \in vec : \A j \in vec : j <= i

\* the new position the loop gives the axis at i behind a vectorized axis
ShiftedPos(i) == i - 1

\* (mutant) the vectorized axis sent to the outermost position
VecReorderMapToFront(tv) ==
    LET vec == {i \in Positions(tv) : Axis(tv, i).pt = "Vectorize"}
    IN  [i \in vec |-> 0]

\* vec_reorder_map after the loop
VecReorderMap(tv) ==
    LET vec == {i \in Positions(tv) : Axis(tv, i).pt = "Vectorize"}
        behind == {i \in Positions(tv) \ vec : \E j \in vec : j < i}
    IN  [i \in vec \cup behind |-> IF i \in vec THEN -1 ELSE ShiftedPos(i)]

(***************************************************************************)
(* scheduleReductionTV, step by step.                                      *)
(***************************************************************************)
Fail(msg) ==
    /\ pc' = "failed"
    /\ failure' = msg

Preconditions ==
    /\ pc = "start"
    /\ UNCHANGED << inlinerVars, projectorVars >>
    /\ \E multiple_reds_per_blk \in BOOLEAN :
        LET f == EntryFailure(rparams, reduction_tv, has_iter_axis, multiple_reds_per_blk)
        IN  IF f # "none" THEN Fail(f)
            ELSE pc' = "inner" /\ failure' = "none"
    /\ UNCHANGED << rparams, has_iter_axis, entry_tv, reduction_tv, sort_input,
                    reorder_map, canonical_tv, rfactor_axes, reduction_rf_tv >>

InnerReduction ==
    /\ pc = "inner"
    /\ UNCHANGED << inlinerVars, projectorVars >>
    /\ \E res \in {InnerReductionSchedule(
                        reduction_tv, rparams,
                        inner_reduce_axis(rparams, has_iter_axis))} :
        /\ reduction_tv' = res.tv
        /\ IF res.failure # "none" THEN Fail(res.failure)
           ELSE pc' = "outer" /\ UNCHANGED failure
    /\ UNCHANGED << rparams, has_iter_axis, entry_tv, sort_input,
                    reorder_map, canonical_tv, rfactor_axes, reduction_rf_tv >>

\* the parameters only the outer reduction reads
OuterParams ==
    [cross_grid_outer_reduction : BOOLEAN,
     cross_block_outer_reduction : BOOLEAN,
     grid_dim_outer_reduction : {"BIDy"},
     block_dim_outer_reduction : {"Serial", "TIDy"},
     batches_per_block_outer_reduction : {MaxFactor},
     unroll_factor_outer_reduction : {1, MaxFactor}]

OuterReduction ==
    /\ pc = "outer"
    /\ UNCHANGED << inlinerVars, projectorVars >>
    /\ IF rparams.schedule_3D
       THEN \E o \in OuterParams :
               reduction_tv' =
                   IF rparams.persistent_kernel
                   THEN OuterPersistent(reduction_tv, o, outer_reduce_axis(rparams))
                   ELSE OuterNonPersistent(reduction_tv, o, outer_reduce_axis(rparams))
       ELSE UNCHANGED reduction_tv
    /\ pc' = "iter"
    /\ UNCHANGED << rparams, has_iter_axis, entry_tv, sort_input, reorder_map,
                    canonical_tv, rfactor_axes, reduction_rf_tv, failure >>

\* the parameters only the iteration domain reads
IterParams ==
    [block_dim_iter_dom : {"Serial", "TIDx"},
     grid_dim_iter_dom : {"Serial", "BIDx"},
     split_grid_dim_iter_dom_outer : BOOLEAN,
     split_grid_dim_iter_dom_inner : BOOLEAN,
     static_bdimx : BOOLEAN]

IterationDomain ==
    /\ pc = "iter"
    /\ UNCHANGED << inlinerVars, projectorVars >>
    /\ IF has_iter_axis
       THEN \E it \in IterParams :
               LET res == IterDomainSchedule(reduction_tv, rparams, it)
               IN  /\ reduction_tv' = res.tv
                   /\ IF res.failure # "none" THEN Fail(res.failure)
                      ELSE pc' = "sort" /\ UNCHANGED failure
       ELSE /\ pc' = "sort"
            /\ UNCHANGED << reduction_tv, failure >>
    /\ UNCHANGED << rparams, has_iter_axis, entry_tv, sort_input, reorder_map,
                    canonical_tv, rfactor_axes, reduction_rf_tv >>

VectorizeInnermost ==
    /\ pc = "sorted"
    /\ UNCHANGED << inlinerVars, projectorVars >>
    /\ IF is_outer_grid_persistence(rparams)
       THEN IF VecIdCurPos(reduction_rf_tv) = -1
            THEN Fail("Vectorized ID not found") /\ UNCHANGED reduction_rf_tv
            ELSE /\ reduction_rf_tv' =
                        Reorder(reduction_rf_tv, VecReorderMap(reduction_rf_tv))
                 /\ pc' = "done"
                 /\ UNCHANGED failure
       ELSE /\ pc' = "done"
            /\ UNCHANGED << reduction_rf_tv, failure >>
    /\ UNCHANGED << rparams, has_iter_axis, entry_tv, reduction_tv, sort_input,
                    reorder_map, canonical_tv, rfactor_axes >>

(***************************************************************************)
(* The calls of scheduleReductionTV.  The node at entry is in the          *)
(* canonical form the schedulers hand over: its iteration axis (when there *)
(* is one) first, the reduction axes behind it, all serial, with the axes  *)
(* the drawn layout addresses or, for the failing calls, fewer.  A         *)
(* parameter that the code does not read for the drawn regime keeps one    *)
(* value.                                                                  *)
(***************************************************************************)
EntryNode(n, has_iter) ==
    [k \in 1 .. n |->
        MkAxis(~(has_iter /\ k = 1), FALSE, FALSE, FALSE, "Serial", FALSE, k - 1)]

BaseParams ==
    [schedule_3D : BOOLEAN,
     fastest_dim : BOOLEAN,
     persistent_kernel : BOOLEAN,
     cross_grid_inner_reduction : BOOLEAN,
     vectorize_iter_dom : BOOLEAN,
     vectorize_inner_reduction : BOOLEAN,
     unroll_factor_iter_dom : {1, MaxFactor},
     unroll_factor_inner_reduction : 1 .. MaxFactor]

\* the inner-reduction parameters, each free where the regime of b reads it
InnerParams(b, live) ==
    LET ogp == is_outer_grid_persistence(b)
        grid == live /\ b.cross_grid_inner_reduction
        nonp == live /\ ~b.persistent_kernel
    IN  [batches_per_block_inner_reduction :
            IF live /\ b.persistent_kernel THEN 1 .. MaxFactor ELSE {1},
         static_bdimy : IF live /\ ogp THEN BOOLEAN ELSE {TRUE},
         cross_block_inner_reduction : IF nonp THEN BOOLEAN ELSE {FALSE},
         split_grid_dim_inner_reduction :
            IF nonp /\ grid THEN BOOLEAN ELSE {FALSE},
         block_dim_inner_reduction : IF live THEN {"Serial", "TIDy"} ELSE {"Serial"},
         grid_dim_inner_reduction : IF grid THEN {"Serial", "BIDy"} ELSE {"Serial"}]

SchedParams(n, has_iter) ==
    UNION {{b @@ i : i \in InnerParams(b,
                EntryFailure(b, EntryNode(n, has_iter), has_iter, FALSE) = "none")} :
           b \in BaseParams}

InitSched ==
    /\ pc = "start"
    /\ has_iter_axis \in BOOLEAN
    /\ \E n \in 0 .. MaxDims :
        /\ entry_tv = EntryNode(n, has_iter_axis)
        /\ rparams \in SchedParams(n, has_iter_axis)
        /\ n <= MinDims(rparams, has_iter_axis) + 1
    /\ reduction_tv = entry_tv
    /\ sort_input = << >>
    /\ reorder_map = << >>
    /\ canonical_tv = << >>
    /\ rfactor_axes = << >>
    /\ reduction_rf_tv = << >>
    /\ failure = "none"
    /\ NoInliner
    /\ NoProjector

NextSched ==
    \/ Preconditions
    \/ InnerReduction
    \/ OuterReduction
    \/ IterationDomain
    \/ SortAndRFactor
    \/ VectorizeInnermost

SpecSched == InitSched /\ [][NextSched]_vars

(***************************************************************************)
(*                        multiReductionInliner                            *)
(*                                                                         *)
(* The nodes of the graph are named by strings.  In the axes of the nodes  *)
(* of this graph root is the position, in the scheduled reduction node,    *)
(* of the axis that the compute-at map maps the axis to; it is -1 for a    *)
(* broadcast axis a node has of its own and for the axes of a node that    *)
(* the transformations have not reached yet.                               *)
(***************************************************************************)
\* most axes of the scheduled reduction node handed to the inliner
MaxRefAxes == 3
\* most broadcast axes another node has in front of its first mapped axis
MaxBroadcasts == 1

\* ReductionParams::isUnrolled
isUnrolled(r) ==
    \/ r.unroll_factor_inner_reduction > 1
    \/ r.unroll_factor_iter_dom > 1
    \/ r.unroll_factor_outer_reduction > 1

Range(s) == {s[k] : k \in 1 .. Len(s)}

(***************************************************************************)
(* addBackBroadcasts(tv, non_broadcast_axes): the loop from position i on, *)
(* with non_broadcast_pos the count of non-broadcast axes passed so far.   *)
(***************************************************************************)
RECURSIVE addBackBroadcastsFrom(_, _, _, _)
addBackBroadcastsFrom(tv, non_broadcast_axes, i, non_broadcast_pos) ==
    IF i >= nDims(tv) THEN << >>
    ELSE IF Axis(tv, i).bcast
    THEN addBackBroadcastsFrom(tv, non_broadcast_axes, i + 1, non_broadcast_pos)
    ELSE (IF non_broadcast_pos \in non_broadcast_axes THEN << i >> ELSE << >>)
         \o addBackBroadcastsFrom(tv, non_broadcast_axes, i + 1,
                                  non_broadcast_pos + 1)

\* (mutant) the positions taken as raw positions
addBackBroadcastsRaw(tv, non_broadcast_axes) ==
    Ascending(non_broadcast_axes \cap Positions(tv))

addBackBroadcasts(tv, non_broadcast_axes) ==
    addBackBroadcastsFrom(tv, non_broadcast_axes, 0, 0)

\* non_broadcast_rfactor_axes: the loop over reference_tv from position i on
RECURSIVE NonBroadcastRFactorAxesFrom(_, _, _)
NonBroadcastRFactorAxesFrom(tv, i, non_broadcast_pos) ==
    IF i >= nDims(tv) THEN {}
    ELSE IF Axis(tv, i).bcast
    THEN NonBroadcastRFactorAxesFrom(tv, i + 1, non_broadcast_pos)
    ELSE (IF Axis(tv, i).red /\ Axis(tv, i).rf THEN {non_broadcast_pos} ELSE {})
         \cup NonBroadcastRFactorAxesFrom(tv, i + 1, non_broadcast_pos + 1)

NonBroadcastRFactorAxes(tv) == NonBroadcastRFactorAxesFrom(tv, 0, 0)

(***************************************************************************)
(* scheduler_utils::parallelizeAllLike(reference_tv, pos = -1,             *)
(* selected_tvs, selected_parallel_types): every axis of a selected node   *)
(* that is mapped to an axis of the reference takes the parallel type of   *)
(* that axis when the type is one of the selected types.  The nodes that   *)
(* are not selected, their siblings included, are left alone.              *)
(***************************************************************************)
parallelizeAllLike(doms, reference_tv, selected_tvs, selected_parallel_types) ==
    [tv \in DOMAIN doms |->
        IF tv \notin selected_tvs THEN doms[tv]
        ELSE [k \in 1 .. Len(doms[tv]) |->
                LET id == doms[tv][k]
                    like == {j \in 1 .. Len(doms[reference_tv]) :
                                doms[reference_tv][j].root = id.root}
                IN  IF /\ id.root # -1
                       /\ \E j \in like :
                            doms[reference_tv][j].pt \in selected_parallel_types
                    THEN [id EXCEPT !.pt =
                            doms[reference_tv][CHOOSE j \in like : TRUE].pt]
                    ELSE id]]

(***************************************************************************)
(* TransformPropagator from reference_tv over the spanning tree: a node    *)
(* the transformations have not reached yet ends with one axis per         *)
(* non-broadcast axis of the reference, in the reference's order, serial,  *)
(* and keeps the broadcast axes it has of its own, shape.lead of them in   *)
(* front of its first mapped axis and shape.mid behind it.  shape.kind     *)
(* tells what the node makes of a reduced axis: a reduction node reduces   *)
(* it, the broadcast of a reduction's result has a broadcast axis there    *)
(* (mapped to the reduced axis when shape.mapped), any other node iterates *)
(* over it.  A node that came in staged (shape.staged) has no axis for the *)
(* staged axes of the reference.                                           *)
(***************************************************************************)
Broadcasts(n) ==
    [k \in 1 .. n |-> MkAxis(FALSE, TRUE, FALSE, FALSE, "Serial", FALSE, -1)]

\* the axis was a reduction axis of the node before it was staged
WasReduction(id) == id.red \/ id.rf

ReplayAxis(id, shape) ==
    IF shape.kind = "reduction"
    THEN [id EXCEPT !.red = WasReduction(id), !.rf = FALSE, !.pt = "Serial"]
    ELSE IF shape.kind = "broadcast"
    THEN [id EXCEPT !.red = FALSE, !.rf = FALSE, !.pt = "Serial",
                    !.bcast = WasReduction(id),
                    !.root = IF WasReduction(id) /\ ~shape.mapped
                             THEN -1 ELSE id.root]
    ELSE [id EXCEPT !.red = FALSE, !.rf = FALSE, !.pt = "Serial"]

Replay(ref, shape) ==
    LET Own(id) == ~id.bcast /\ ~(shape.staged /\ id.red /\ id.rf)
        own == SelectSeq(ref, Own)
        mapped == [k \in 1 .. Len(own) |-> ReplayAxis(own[k], shape)]
    IN  IF mapped = << >> THEN Broadcasts(shape.lead + shape.mid)
        ELSE Broadcasts(shape.lead) \o << mapped[1] >> \o Broadcasts(shape.mid)
             \o SubSeq(mapped, 2, Len(mapped))

\* the axes of a node the transformations have not reached: its own
\* broadcast axes, the iteration axis (when the reduction has one) and the
\* axis that is reduced
Unscheduled(ref, shape) ==
    LET rootAxis(id) == [ReplayAxis(id, shape) EXCEPT !.root = -1]
        Iter(id) == ~id.bcast /\ ~WasReduction(id)
        Red(id) == ~id.bcast /\ WasReduction(id)
        iters == SelectSeq(ref, Iter)
        reds == SelectSeq(ref, Red)
    IN  Broadcasts(shape.lead + shape.mid)
        \o (IF iters = << >> THEN << >> ELSE << rootAxis(iters[1]) >>)
        \o (IF reds = << >> THEN << >> ELSE << rootAxis(reds[1]) >>)

(***************************************************************************)
(* isGridAllreduce(reduction_tv)                                           *)
(***************************************************************************)
\* (mutant) the parallel types of the thread dimensions looked at
isGridAllreduceThreadDim(doms, tv) ==
    /\ tv \in fusion.local
    /\ \E bcast_tv \in fusion.uses[tv] :
        \E k \in 1 .. Len(doms[bcast_tv]) :
            /\ isParallelTypeThreadDim(doms[bcast_tv][k].pt)
            /\ \E j \in 1 .. Len(doms[tv]) :
                /\ doms[tv][j].red
                /\ doms[tv][j].pt = doms[bcast_tv][k].pt

\* (mutant) a node that already has a group axis is not detected again
isGridAllreduceNotGrouped(doms, tv) ==
    /\ tv \in fusion.local
    /\ \A j \in 1 .. Len(doms[tv]) : doms[tv][j].pt # "Group"
    /\ \E bcast_tv \in fusion.uses[tv] :
        \E k \in 1 .. Len(doms[bcast_tv]) :
            /\ isParallelTypeBlockDim(doms[bcast_tv][k].pt)
            /\ \E j \in 1 .. Len(doms[tv]) :
                /\ doms[tv][j].red
                /\ isParallelTypeBlockDim(doms[tv][j].pt)
                /\ doms[tv][j].pt = doms[bcast_tv][k].pt

isGridAllreduce(doms, tv) ==
    /\ tv \in fusion.local
    /\ \E bcast_tv \in fusion.uses[tv] :
        \E k \in 1 .. Len(doms[bcast_tv]) :
            /\ isParallelTypeBlockDim(doms[bcast_tv][k].pt)
            /\ \E j \in 1 .. Len(doms[tv]) :
                /\ doms[tv][j].red
                /\ isParallelTypeBlockDim(doms[tv][j].pt)
                /\ doms[tv][j].pt = doms[bcast_tv][k].pt

(***************************************************************************)
(* The strip / regroup loop body for one of reference_tv, reduction_tv.    *)
(***************************************************************************)
\* (mutant) Vectorize made Group on a node that is not a reduction node too
StripToGroupOnAnyNode(tv, id) ==
    IF is_outer_grid_persistence(rparams) /\ id.pt = "Vectorize"
    THEN "Group"
    ELSE IF id.pt \in UnrollTypes THEN "Serial"
    ELSE id.pt

\* the parallel type the loop gives the axis id of tv
StripTo(tv, id) ==
    IF /\ is_outer_grid_persistence(rparams)
       /\ InSeq(tv, fusion.reduction_tvs)
       /\ id.pt = "Vectorize"
    THEN "Group"
    ELSE IF id.pt \in UnrollTypes THEN "Serial"
    ELSE id.pt

\* (mutant) Group is not carried over to the siblings
ClearUnrollGroupOnNode(doms, tv) ==
    IF tv \in are_unrolled THEN doms
    ELSE [n \in DOMAIN doms |->
            IF n = tv \/ n \in fusion.siblings[tv]
            THEN [k \in 1 .. Len(doms[n]) |->
                    IF /\ k <= Len(doms[tv])
                       /\ StripTo(tv, doms[tv][k]) # doms[tv][k].pt
                       /\ (n = tv \/ StripTo(tv, doms[tv][k]) # "Group")
                    THEN [doms[n][k] EXCEPT !.pt = StripTo(tv, doms[tv][k])]
                    ELSE doms[n][k]]
            ELSE doms[n]]

ClearUnroll(doms, tv) ==
    IF tv \in are_unrolled THEN doms
    ELSE [n \in DOMAIN doms |->
            IF n = tv \/ n \in fusion.siblings[tv]
            THEN [k \in 1 .. Len(doms[n]) |->
                    IF /\ k <= Len(doms[tv])
                       /\ StripTo(tv, doms[tv][k]) # doms[tv][k].pt
                    THEN [doms[n][k] EXCEPT !.pt = StripTo(tv, doms[tv][k])]
                    ELSE doms[n][k]]
            ELSE doms[n]]

\* (mutant) the dummy outputs removed only inside the unroll block
removeOutputsWhenUnrolled(outs, dummies) ==
    LET Stays(o) == ~InSeq(o, dummies)
    IN  IF isUnrolled(rparams) THEN SelectSeq(outs, Stays) ELSE outs

\* fusion->removeOutput(output) for every output of dummy_outputs (dummies)
removeOutputs(outs, dummies) ==
    LET Stays(o) == ~InSeq(o, dummies)
    IN  SelectSeq(outs, Stays)

(***************************************************************************)
(* multiReductionInliner, step by step.                                    *)
(***************************************************************************)
PropagateTransformations ==
    /\ pc = "propagate"
    /\ domains' = [tv \in DOMAIN domains |->
                    IF fusion.shape[tv].kind = "scheduled" THEN domains[tv]
                    ELSE Replay(domains[fusion.reference_tv], fusion.shape[tv])]
    /\ pc' = "rfactor"
    /\ UNCHANGED << fusion, outputs, rfactored, are_unrolled, allreduce_tvs >>
    /\ UNCHANGED << schedVars, projectorVars >>

\* the reduction nodes the loop hands to rfactorHelper
ToRFactor ==
    IF fusion.reference_tv = fusion.reduction_tv THEN {}
    ELSE {tv \in Range(fusion.reduction_tvs) :
            tv # fusion.reduction_tv /\ tv \notin fusion.grouped}

RFactorOtherReductions ==
    /\ pc = "rfactor"
    /\ \E non_broadcast_rfactor_axes \in
            {NonBroadcastRFactorAxes(domains[fusion.reference_tv])} :
        /\ rfactored' = [tv \in DOMAIN rfactored |->
                IF tv \in ToRFactor
                THEN [called |-> TRUE,
                      axes |-> addBackBroadcasts(domains[tv],
                                                 non_broadcast_rfactor_axes),
                      domain |-> domains[tv]]
                ELSE rfactored[tv]]
        /\ domains' =
                [tv \in DOMAIN domains |->
                    IF tv \in ToRFactor
                    THEN RFactorConsumer(domains[tv], rfactored'[tv].axes)
                    ELSE domains[tv]]
                @@ [rf \in {fusion.rf_of[tv] : tv \in ToRFactor} |->
                    LET tv == CHOOSE t \in ToRFactor : fusion.rf_of[t] = rf
                    IN  RFactorProducer(domains[tv], rfactored'[tv].axes)]
    /\ pc' = "parallelize"
    /\ UNCHANGED << fusion, outputs, are_unrolled, allreduce_tvs >>
    /\ UNCHANGED << schedVars, projectorVars >>

PropagateParallelization ==
    /\ pc = "parallelize"
    /\ domains' = parallelizeAllLike(domains, fusion.reference_tv, DOMAIN domains,
                                     ParallelTypes \ UnrollTypes)
    /\ pc' = IF isUnrolled(rparams) THEN "unroll" ELSE "remove"
    /\ UNCHANGED << fusion, outputs, rfactored, are_unrolled, allreduce_tvs >>
    /\ UNCHANGED << schedVars, projectorVars >>

\* what the eligibility tests read of a cached input or output
CachedFacts ==
    [single_producer : BOOLEAN, set_op : BOOLEAN, vectorizable : BOOLEAN]

PropagateUnroll ==
    /\ pc = "unroll"
    /\ \E cin \in CachedFacts, cout \in CachedFacts :
        LET vectorized == \/ rparams.vectorize_inner_reduction
                          \/ rparams.vectorize_iter_dom
            ins == {cached_input \in Range(fusion.cached_inputs) :
                        vectorized => /\ cin.single_producer
                                     /\ cin.set_op
                                     /\ cin.vectorizable}
            outs == {pair[2] : pair \in
                        {p \in Range(fusion.cached_outputs) :
                            vectorized => cout.set_op /\ cout.vectorizable}}
        IN  /\ are_unrolled' = ins \cup outs
            /\ domains' =
                IF ins \cup outs = {} THEN domains
                ELSE parallelizeAllLike(domains, fusion.reference_tv,
                                        ins \cup outs, UnrollTypes)
    /\ pc' = "strip"
    /\ UNCHANGED << fusion, outputs, rfactored, allreduce_tvs >>
    /\ UNCHANGED << schedVars, projectorVars >>

ClearOrGroup ==
    /\ pc = "strip"
    /\ domains' = ClearUnroll(ClearUnroll(domains, fusion.reference_tv),
                              fusion.reduction_tv)
    /\ pc' = "allreduce"
    /\ UNCHANGED << fusion, outputs, rfactored, are_unrolled, allreduce_tvs >>
    /\ UNCHANGED << schedVars, projectorVars >>

GroupAllreduce ==
    /\ pc = "allreduce"
    /\ LET Selected(tv) == tv # fusion.reduction_tv /\ isGridAllreduce(domains, tv)
           selected == SelectSeq(fusion.reduction_tvs, Selected)
       IN  /\ allreduce_tvs' = selected
           /\ domains' =
                IF selected = << >> THEN domains
                ELSE parallelizeAllLike(domains, fusion.reduction_tv,
                                        Range(selected), {"Group"})
    /\ pc' = "remove"
    /\ UNCHANGED << fusion, outputs, rfactored, are_unrolled >>
    /\ UNCHANGED << schedVars, projectorVars >>

RemoveDummyOutputs ==
    /\ pc = "remove"
    /\ outputs' = removeOutputs(outputs, fusion.dummy_outputs)
    /\ pc' = "inline"
    /\ UNCHANGED << fusion, domains, rfactored, are_unrolled, allreduce_tvs >>
    /\ UNCHANGED << schedVars, projectorVars >>

\* inlineMost(): the compute-at positions are not part of the state
InlineMost ==
    /\ pc = "inline"
    /\ pc' = "returned"
    /\ UNCHANGED inlinerVars
    /\ UNCHANGED << schedVars, projectorVars >>

(***************************************************************************)
(* The calls of multiReductionInliner.  The scheduled reduction node has   *)
(* at most one iteration axis (serial, vectorized or unrolled), one or two *)
(* reduction axes (serial, or bound to a grid dimension) and at most one   *)
(* broadcast axis; some of its serial reduction axes were staged, which    *)
(* gave the reference node, or none was and the reference is the reduction *)
(* node itself.  The graph holds two more reduction nodes (the second may  *)
(* be a grouped reduction that came in staged), the broadcasts that use    *)
(* them, the siblings of the reference and the reduction node, a cached    *)
(* input, a cached output and the dummy outputs.                           *)
(***************************************************************************)
IterKinds == {"Serial", "Vectorize", "Unroll"}

IterAxis(pt) == MkAxis(FALSE, FALSE, FALSE, FALSE, pt, FALSE, 0)
RedAxis(pt) == MkAxis(TRUE, FALSE, FALSE, FALSE, pt, FALSE, 0)

ReductionParts ==
    {<< RedAxis("Serial") >>, << RedAxis("BIDy") >>,
     << RedAxis("BIDy"), RedAxis("Serial") >>,
     << RedAxis("Serial"), RedAxis("BIDy") >>,
     << RedAxis("Serial"), RedAxis("Serial") >>}

\* s with a broadcast axis put at position p
WithBroadcast(s, p) == SubSeq(s, 1, p) \o Broadcasts(1) \o SubSeq(s, p + 1, Len(s))

Numbered(s) == [k \in 1 .. Len(s) |-> [s[k] EXCEPT !.root = k - 1]]

ScheduledNodes ==
    LET plain == ReductionParts
                 \cup {<< IterAxis(pt) >> \o reds :
                        pt \in IterKinds, reds \in ReductionParts}
        fitting == {s \in plain : Len(s) <= MaxRefAxes}
        widened == UNION {{WithBroadcast(s, p) : p \in 0 .. Len(s)} :
                            s \in {t \in plain : Len(t) < MaxRefAxes}}
    IN  {Numbered(s) : s \in fitting \cup widened}

\* the positions rfactorHelper was given when the node was staged: serial
\* reduction axes, at least one reduction axis left; none when it was not
Stagings(s) ==
    LET reds == {i \in Positions(s) : Axis(s, i).red}
        candidates == {i \in reds : ~isThread(Axis(s, i))}
    IN  {Ascending(A) : A \in {B \in SUBSET candidates : B # reds}}

HasType(s, pt) == \E i \in Positions(s) : Axis(s, i).pt = pt

\* the parameters that scheduled s
InlinerParams(s) ==
    [persistent_kernel :
        IF HasType(s, "Vectorize") /\ HasType(s, "BIDy") THEN BOOLEAN ELSE {FALSE},
     cross_grid_inner_reduction : {HasType(s, "BIDy")},
     fastest_dim : {~HasType(s, "Vectorize")},
     vectorize_inner_reduction : {FALSE},
     vectorize_iter_dom : {HasType(s, "Vectorize")},
     unroll_factor_inner_reduction : {1},
     unroll_factor_outer_reduction : {1},
     unroll_factor_iter_dom :
        IF HasType(s, "Vectorize") THEN {1, MaxFactor}
        ELSE IF HasType(s, "Unroll") THEN {MaxFactor}
        ELSE {1}]

\* the first other reduction node: its broadcast axes, whether a broadcast
\* uses it and is mapped to the reduced axes, whether it is in local memory
OtherReductions(s) ==
    [lead : 0 .. MaxBroadcasts, mid : 0 .. 1,
     use : IF HasType(s, "BIDy") THEN {"none", "mapped", "unmapped"} ELSE {"none"},
     local : {TRUE}]
    \cup [lead : {0}, mid : {0},
          use : IF HasType(s, "BIDy") THEN {"mapped"} ELSE {},
          local : {FALSE}]

DummyCases == {<< >>, << "T_d1", "T_d2" >>}

SiblingCases == {"none", "same", "serial"}

Shape(kind, lead, mid, mapped, staged) ==
    [kind |-> kind, lead |-> lead, mid |-> mid, mapped |-> mapped,
     staged |-> staged]

ScheduledShape == Shape("scheduled", 0, 0, TRUE, FALSE)

\* the axes of a sibling at entry: those of the node, or those with the
\* unroll and vectorize assignments missing
SiblingOf(dom, case) ==
    [k \in 1 .. Len(dom) |->
        IF case = "serial" /\ dom[k].pt \in UnrollTypes
        THEN [dom[k] EXCEPT !.pt = "Serial"]
        ELSE dom[k]]

Graph(s, axes, t1, grouped2, dummies, sib) ==
    LET staged == axes # << >>
        reference_tv == IF staged THEN "T_rf" ELSE "T_red"
        ref == IF staged THEN RFactorProducer(s, axes) ELSE s
        red == IF staged THEN RFactorConsumer(s, axes) ELSE s
        shape ==
            [tv \in {"T_red", "T_rf", "T_red_s", "T_rf_s", "T1_rf", "T2_rf"}
                |-> ScheduledShape]
            @@ ("T1" :> Shape("reduction", t1.lead, t1.mid, TRUE, FALSE))
            @@ ("T2" :> Shape("reduction", 1, 0, TRUE, grouped2 /\ staged))
            @@ [tv \in {"T1_b", "T2_b"} |->
                    Shape("broadcast", 0, 0, tv = "T2_b" \/ t1.use = "mapped", FALSE)]
            @@ [tv \in {"T_cin", "T_cache", "T_cout", "T_d1", "T_d2"} |->
                    Shape("pointwise", 0, 0, TRUE, FALSE)]
        nodes == {"T_red", "T1", "T2", "T2_b", "T_cin", "T_cache", "T_cout"}
                 \cup (IF staged THEN {"T_rf"} ELSE {})
                 \cup (IF sib = "none" THEN {}
                       ELSE {"T_red_s"} \cup (IF staged THEN {"T_rf_s"} ELSE {}))
                 \cup (IF t1.use = "none" THEN {} ELSE {"T1_b"})
                 \cup Range(dummies)
    IN  [fusion |->
            [reference_tv |-> reference_tv,
             reduction_tv |-> "T_red",
             reduction_tvs |-> << "T_red", "T1", "T2" >>,
             cached_inputs |-> << "T_cin" >>,
             cached_outputs |-> << << "T_cache", "T_cout" >> >>,
             dummy_outputs |-> dummies,
             grouped |-> IF grouped2 THEN {"T2"} ELSE {},
             local |-> {"T_red", "T2"} \cup (IF t1.local THEN {"T1"} ELSE {}),
             uses |-> [tv \in {"T_red", "T1", "T2"} |->
                        IF tv = "T2" THEN {"T2_b"}
                        ELSE IF tv = "T1" /\ t1.use # "none" THEN {"T1_b"}
                        ELSE {}],
             siblings |-> [tv \in {"T_red", "T_rf"} |->
                            IF sib = "none" \/ tv \notin nodes THEN {}
                            ELSE IF tv = "T_red" THEN {"T_red_s"} ELSE {"T_rf_s"}],
             rf_of |-> [tv \in {"T1", "T2"} |->
                            IF tv = "T1" THEN "T1_rf" ELSE "T2_rf"],
             shape |-> shape],
         domains |->
            [tv \in nodes |->
                IF tv = "T_red" THEN red
                ELSE IF tv = "T_rf" THEN ref
                ELSE IF tv = "T_red_s" THEN SiblingOf(red, sib)
                ELSE IF tv = "T_rf_s" THEN SiblingOf(ref, sib)
                ELSE Unscheduled(ref, shape[tv])],
         outputs |-> << "T_cout" >> \o dummies]

InitInliner ==
    /\ pc = "propagate"
    /\ \E s \in ScheduledNodes :
       \E axes \in Stagings(s) :
       \E t1 \in OtherReductions(s), grouped2 \in BOOLEAN :
       \E dummies \in DummyCases, sib \in SiblingCases :
       \E g \in {Graph(s, axes, t1, grouped2, dummies, sib)} :
            /\ rparams \in InlinerParams(s)
            /\ fusion = g.fusion
            /\ domains = g.domains
            /\ outputs = g.outputs
    /\ rfactored = [tv \in Range(fusion.reduction_tvs) |->
                        [called |-> FALSE, axes |-> << >>, domain |-> << >>]]
    /\ are_unrolled = {}
    /\ allreduce_tvs = << >>
    /\ NoScheduler
    /\ NoProjector

NextInliner ==
    \/ PropagateTransformations
    \/ RFactorOtherReductions
    \/ PropagateParallelization
    \/ PropagateUnroll
    \/ ClearOrGroup
    \/ GroupAllreduce
    \/ RemoveDummyOutputs
    \/ InlineMost

SpecInliner == InitInliner /\ [][NextInliner]_vars

(***************************************************************************)
(*                       projectPersistentBuffers                          *)
(*                                                                         *)
(* The nodes of the graph are numbered; graph[n].inputs are the inputs of  *)
(* the expression that defines n (none for an input of the fusion), in the *)
(* order of the expression.  A node made by this function is numbered with *)
(* the number of nodes there were before it.                               *)
(***************************************************************************)
\* the nodes of the graph handed to projectPersistentBuffers
MaxNodes == 5

Inputs(g, n) == Range(g[n].inputs)
Uses(g, v) == {u \in DOMAIN g : v \in Inputs(g, u)}

\* DependencyCheck::getAllDependencyChains(from, to): every chain of uses
\* that leads from from to to, both ends included
RECURSIVE DependencyChains(_, _, _)
DependencyChains(g, from, to) ==
    IF from = to THEN {<< to >>}
    ELSE UNION {{<< from >> \o chain : chain \in DependencyChains(g, u, to)} :
                u \in Uses(g, from)}

\* the chain has no node with a reduction axis (TensorView::hasReduction)
NoReductionOn(g, chain) ==
    \A k \in 1 .. Len(chain) : ~g[chain[k]].has_reduction

\* (mutant) a use recorded again for every resolution point it leads to
RECURSIVE PersistentUseOfBufferPerPoint(_, _, _, _, _)
PersistentUseOfBufferPerPoint(g, buffer, resolution_points, k, found) ==
    IF k > Len(resolution_points) THEN found
    ELSE LET chains == DependencyChains(g, buffer, resolution_points[k])
             uses == {chain[2] : chain \in {c \in chains : NoReductionOn(g, c)}}
         IN  PersistentUseOfBufferPerPoint(g, buffer, resolution_points, k + 1,
                                           found \o Ascending(uses))

\* persistent_use_of_buffer: the loop over the resolution points from the
\* k-th on, found holding the uses recorded so far
RECURSIVE PersistentUseOfBuffer(_, _, _, _, _)
PersistentUseOfBuffer(g, buffer, resolution_points, k, found) ==
    IF k > Len(resolution_points) THEN found
    ELSE LET chains == DependencyChains(g, buffer, resolution_points[k])
             uses == {chain[2] : chain \in {c \in chains : NoReductionOn(g, c)}}
         IN  PersistentUseOfBuffer(g, buffer, resolution_points, k + 1,
                                   found \o Ascending(uses \ Range(found)))

\* the nodes that RecomputeTv::recompute clones: tv and what it is computed
\* from, the inputs of the fusion left out
RECURSIVE NonInputAncestors(_, _)
NonInputAncestors(g, n) ==
    IF g[n].inputs = << >> THEN {}
    ELSE {n} \cup UNION {NonInputAncestors(g, i) : i \in Inputs(g, n)}

\* RecomputeTv::recompute(tv): the graph with the clones, and the clone of tv
Recompute(g, tv) ==
    LET cloned == Ascending(NonInputAncestors(g, tv))
        base == Cardinality(DOMAIN g)
        CloneOf(n) ==
            IF InSeq(n, cloned)
            THEN base - 1 + CHOOSE k \in 1 .. Len(cloned) : cloned[k] = n
            ELSE n
    IN  [graph |-> g @@ [c \in base .. base + Len(cloned) - 1 |->
                            LET n == cloned[c - base + 1]
                            IN  [inputs |-> [k \in 1 .. Len(g[n].inputs) |->
                                                CloneOf(g[n].inputs[k])],
                                 has_reduction |-> g[n].has_reduction,
                                 kind |-> "recomputed",
                                 of |-> n]],
         tv |-> CloneOf(tv)]

\* ir_utils::replaceValInExpr(expr, reference, substitute) on the inputs
ReplaceValInExpr(inputs, reference, substitute) ==
    [k \in 1 .. Len(inputs) |->
        IF inputs[k] = reference THEN substitute ELSE inputs[k]]

\* the body of the loop over persistent_use_of_buffer, for one use
ProjectUse(g, buffer, use) ==
    LET recomputed == Recompute(g, buffer)
        buffer_replicate == recomputed.tv
        dummy == Cardinality(DOMAIN recomputed.graph)
    IN  [graph |->
            [recomputed.graph EXCEPT
                ![use].inputs = ReplaceValInExpr(@, buffer, buffer_replicate)]
            @@ (dummy :> [inputs |-> << buffer_replicate, buffer >>,
                          has_reduction |-> FALSE,
                          kind |-> "dummy",
                          of |-> buffer]),
         dummy |-> dummy]

\* the loop over persistent_use_of_buffer from the k-th use on
RECURSIVE ProjectUses(_, _, _, _, _)
ProjectUses(g, buffer, uses, k, dummies) ==
    IF k > Len(uses) THEN [graph |-> g, dummies |-> dummies]
    ELSE LET done == ProjectUse(g, buffer, uses[k])
         IN  ProjectUses(done.graph, buffer, uses, k + 1,
                         Append(dummies, done.dummy))

\* one round of the loop over persistent_buffers
ProjectBuffer ==
    /\ pc = "project"
    /\ buffer_i < Len(persistent_info.persistent_buffers)
    /\ LET buffer == persistent_info.persistent_buffers[buffer_i + 1]
           resolution_points ==
                persistent_info.persistent_buffer_resolution_points[buffer_i + 1]
       IN  IF ~InSeq(buffer, persistent_info.projectable_persistent_buffers)
           THEN UNCHANGED << graph, dummy_outputs >>
           ELSE \E uses \in {PersistentUseOfBuffer(graph, buffer,
                                                   resolution_points, 1, << >>)} :
                \E done \in {ProjectUses(graph, buffer, uses, 1, << >>)} :
                    /\ graph' = done.graph
                    /\ dummy_outputs' = dummy_outputs \o done.dummies
    /\ buffer_i' = buffer_i + 1
    /\ UNCHANGED << pc, persistent_info >>
    /\ UNCHANGED << schedVars, inlinerVars >>

ReturnDummyOutputs ==
    /\ pc = "project"
    /\ buffer_i = Len(persistent_info.persistent_buffers)
    /\ pc' = "projected"
    /\ UNCHANGED projectorVars
    /\ UNCHANGED << schedVars, inlinerVars >>

(***************************************************************************)
(* The calls of projectPersistentBuffers: a graph of MaxNodes nodes, node  *)
(* 0 an input of the fusion and every other node computed from one or two  *)
(* earlier nodes (node 1 possibly twice in one expression); nodes 2 and 3  *)
(* may be reductions.  The persistent buffers are node 1 or nodes 1 and 2, *)
(* their resolution points the two last nodes.                             *)
(***************************************************************************)
InputLists(n) ==
    {<< a >> : a \in 0 .. n - 1}
    \cup {<< a, b >> : a \in 0 .. n - 1, b \in 0 .. n - 1}

ExprInputs(n) ==
    IF n = 0 THEN {<< >>}
    ELSE IF n = 1 THEN {<< 0 >>}
    ELSE {l \in InputLists(n) : Len(l) = 2 => (l[1] < l[2] \/ l = << 1, 1 >>)}

\* the definitions of the nodes 0 .. n - 1
RECURSIVE Definitions(_)
Definitions(n) ==
    IF n = 1 THEN {0 :> << >>}
    ELSE {defs @@ (n - 1 :> l) :
            defs \in Definitions(n - 1), l \in ExprInputs(n - 1)}

Graphs ==
    {[n \in 0 .. MaxNodes - 1 |->
        [inputs |-> ins[n], has_reduction |-> n \in reds,
         kind |-> "given", of |-> n]] :
        ins \in Definitions(MaxNodes), reds \in SUBSET {2, 3}}

ResolutionPoints ==
    {<< MaxNodes - 2 >>, << MaxNodes - 1 >>, << MaxNodes - 2, MaxNodes - 1 >>}

PersistentInfos ==
    {[persistent_buffers |-> bufs,
      persistent_buffer_resolution_points |-> points,
      projectable_persistent_buffers |-> Ascending(proj)] :
        bufs \in {<< 1 >>, << 1, 2 >>},
        points \in [1 .. 2 -> ResolutionPoints] \cup [1 .. 1 -> ResolutionPoints],
        proj \in SUBSET {1, 2}}

InitProjector ==
    /\ pc = "project"
    /\ graph \in Graphs
    /\ persistent_info \in
            {i \in PersistentInfos :
                /\ Len(i.persistent_buffer_resolution_points)
                        = Len(i.persistent_buffers)
                /\ Range(i.projectable_persistent_buffers)
                        \subseteq Range(i.persistent_buffers)}
    /\ buffer_i = 0
    /\ dummy_outputs = << >>
    /\ rparams = NoParams
    /\ NoScheduler
    /\ NoInliner

NextProjector ==
    \/ ProjectBuffer
    \/ ReturnDummyOutputs

SpecProjector == InitProjector /\ [][NextProjector]_vars

(***************************************************************************)
(*                    Properties of sortAndRFactor                         *)
(***************************************************************************)
\* The ordering classes of section 4.1 in the order the section lists them;
\* an axis belongs to the first class of the list that it fits.
ListedClass(id) ==
    IF id.red /\ id.pt \in UnrollTypes THEN 1
    ELSE IF id.red /\ id.const THEN 2
    ELSE IF id.red /\ id.pt = "Unswitch" THEN 3
    ELSE IF id.red /\ isParallelTypeThread(id.pt) THEN 4
    ELSE IF id.bcast THEN 5
    ELSE IF id.pt \in UnrollTypes THEN 6
    ELSE IF id.pt = "Unswitch" THEN 7
    ELSE IF id.red THEN 8
    ELSE IF id.pt \in BlockDims THEN 9
    ELSE IF id.pt \in ThreadDims THEN 10
    ELSE IF id.const THEN 11
    ELSE 12

\* The same classes ranked innermost to outermost as the code places them:
\* the four iteration classes after the boundary are listed outermost first.
InnerToOuterRank(id) ==
    IF ListedClass(id) <= 8 THEN ListedClass(id) ELSE 21 - ListedClass(id)

Sorted == pc = "sorted"

\* the axis that was at old position i is, after the reorder, at its mapped position
MovedTo(i) == Axis(canonical_tv, reorder_map[i]) = Axis(sort_input, i)

\* C1 as stated: an axis whose class comes earlier in the list of section 4.1
\* ends at a more-inner (higher) position than one whose class comes later.
C1_ListedOrderInnerFirst ==
    Sorted =>
        \A a, b \in Positions(sort_input) :
            ListedClass(Axis(sort_input, a)) < ListedClass(Axis(sort_input, b))
                => reorder_map[a] > reorder_map[b]

\* C1 (amended): with the four iteration classes after the boundary read in
\* reverse (iteration+symbolic < iteration+constant < iteration+thread <
\* iteration+block, innermost to outermost), an axis of an earlier class ends
\* at a more-inner (higher) position than an axis of a later class, whatever
\* the initial order was.
C1_OrderingByClass ==
    Sorted =>
        \A a, b \in Positions(sort_input) :
            InnerToOuterRank(Axis(sort_input, a)) < InnerToOuterRank(Axis(sort_input, b))
                => /\ reorder_map[a] > reorder_map[b]
                   /\ MovedTo(a)
                   /\ MovedTo(b)

\* two axes of different classes that entered in the inverse order
C1_Witness ==
    /\ Sorted
    /\ \E a, b \in Positions(sort_input) :
        /\ a < b
        /\ InnerToOuterRank(Axis(sort_input, a)) < InnerToOuterRank(Axis(sort_input, b))
        /\ ListedClass(Axis(sort_input, b)) >= 9
        /\ reorder_map[a] > reorder_map[b]

Occurrences(tv, x) == Cardinality({k \in 1 .. Len(tv) : tv[k] = x})
Elements(tv) == {tv[k] : k \in 1 .. Len(tv)}

\* C2: the reorder map is a bijection on the positions of the node, and the
\* node holds the same multiset of axes after the reorder as before it.
C2_ReorderIsBijection ==
    Sorted =>
        /\ DOMAIN reorder_map = Positions(sort_input)
        /\ {reorder_map[i] : i \in Positions(sort_input)} = Positions(sort_input)
        /\ \A i, j \in Positions(sort_input) :
                reorder_map[i] = reorder_map[j] => i = j
        /\ Len(canonical_tv) = Len(sort_input)
        /\ \A x \in Elements(sort_input) \cup Elements(canonical_tv) :
                Occurrences(canonical_tv, x) = Occurrences(sort_input, x)
        /\ \A i \in Positions(sort_input) : MovedTo(i)

\* a node with two equal axes behind an axis that the sort moves past them
C2_Witness ==
    /\ Sorted
    /\ \E i \in Positions(sort_input) : reorder_map[i] # i
    /\ \E i, j \in Positions(sort_input) :
            i # j /\ idPos(Axis(sort_input, i)) = idPos(Axis(sort_input, j))


(***************************************************************************)
(*                   Properties of scheduleReductionTV                     *)
(***************************************************************************)
\* the messages of the assertions made at entry
PreconditionErrors ==
    {"Issue in scheduling reduction tv",
     "Cannot vectorize iteration domain on inner reductions.",
     "Cannot vectorize reduction domain on outer reductions.",
     "Multiple reductions requires an iter domain, but one wasn't found.",
     "Unrolling on iter domain requires an iter domain."}

Failed == pc = "failed"
Completed == pc = "done"
OuterGridPersistence == is_outer_grid_persistence(rparams)

Vectorized(tv) == {i \in Positions(tv) : Axis(tv, i).pt = "Vectorize"}

\* the axis of the node at entry that id was split from is a reduction axis
FromReduction(id) == Axis(entry_tv, id.root).red

IllegalVectorization ==
    \/ rparams.vectorize_inner_reduction /\ ~rparams.fastest_dim
    \/ rparams.vectorize_iter_dom /\ rparams.fastest_dim

\* C3: a call with vectorize_inner_reduction and not fastest_dim, or with
\* vectorize_iter_dom and fastest_dim, fails with one of the errors raised at
\* entry; in a completed build a Vectorize axis comes from a reduction axis
\* exactly when the reduction is the fastest dimension, and no node has more
\* than one Vectorize axis.
C3_VectorizeMutualExclusion ==
    /\ (IllegalVectorization /\ pc # "start")
            => (Failed /\ failure \in PreconditionErrors)
    /\ Completed =>
        \A tv \in {reduction_tv, reduction_rf_tv, sort_input} :
            /\ Cardinality(Vectorized(tv)) <= 1
            /\ \A i \in Vectorized(tv) :
                    FromReduction(Axis(tv, i)) = rparams.fastest_dim

\* a call that asks to vectorize the reduction axis of an outer reduction and
\* has been refused for it
C3_Witness ==
    /\ Failed
    /\ rparams.vectorize_inner_reduction
    /\ ~rparams.fastest_dim
    /\ failure = "Cannot vectorize reduction domain on outer reductions."

\* C4 as stated: whatever the failure, the aborted node has the axis list it
\* had at entry.
C4_EveryFailureBeforeMutation ==
    Failed => reduction_tv = entry_tv

\* C4 (amended): the failures raised at entry and the blockDim.y failure
\* leave the axis list of the node as it was at entry, nothing sorted or
\* staged; the blockDim.x failure is raised after the inner reduction axis
\* was split, and the missing vectorized axis is reported after all splits,
\* the canonical reorder and the staging.
C4_EntryFailuresBeforeMutation ==
    Failed =>
        /\ failure \in PreconditionErrors \cup {"blockDim.y must be static"}
                => /\ reduction_tv = entry_tv
                   /\ sort_input = << >>
                   /\ canonical_tv = << >>
                   /\ reduction_rf_tv = << >>
        /\ failure = "blockDim.x must be static"
                => /\ nDims(reduction_tv) > nDims(entry_tv)
                   /\ sort_input = << >>
        /\ failure = "Vectorized ID not found"
                => /\ nDims(sort_input) > nDims(entry_tv)
                   /\ canonical_tv # << >>
                   /\ reduction_tv # entry_tv
        /\ failure \in PreconditionErrors
                \cup {"blockDim.y must be static", "blockDim.x must be static",
                      "Vectorized ID not found"}

\* the call passed the checks at entry and was aborted for blockDim.y
C4_Witness ==
    /\ Failed
    /\ failure = "blockDim.y must be static"
    /\ OuterGridPersistence
    /\ nDims(entry_tv) > 0

\* the fields of an axis that staging (rFactor) leaves alone
SameAxis(x, y) ==
    /\ x.pt = y.pt
    /\ x.root = y.root
    /\ x.const = y.const
    /\ x.one = y.one
    /\ x.bcast = y.bcast

\* the positions of the axes split from the inner reduction axis
InnerReductionPart(tv) ==
    {i \in Positions(tv) :
        Axis(tv, i).root = inner_reduce_axis(rparams, has_iter_axis)}

BatchEqualsUnroll ==
    rparams.batches_per_block_inner_reduction = rparams.unroll_factor_inner_reduction

Returned == pc = "returned"

\* the steps of the driver that come before the removal of the dummy outputs
BeforeRemoval ==
    pc \in {"propagate", "rfactor", "parallelize", "unroll", "strip",
            "allreduce", "remove"}

\* C5: whether or not unrolling was requested, every dummy output that was
\* in the output list is still there through the propagation and up to the
\* removal, and none is in the list when inlining starts or when the driver
\* has returned; the other outputs stay.
C5_DummyOutputsRemoved ==
    /\ BeforeRemoval =>
            outputs = << "T_cout" >> \o fusion.dummy_outputs
    /\ pc \in {"inline", "returned"} =>
            /\ \A k \in 1 .. Len(outputs) : ~InSeq(outputs[k], fusion.dummy_outputs)
            /\ outputs = << "T_cout" >>

\* the driver has returned from a call without unrolling that was given
\* dummy outputs
C5_Witness ==
    /\ Returned
    /\ ~isUnrolled(rparams)
    /\ Len(fusion.dummy_outputs) = 2
    /\ outputs = << "T_cout" >>

\* the number of non-broadcast axes of dom in front of position i
NonBroadcastOrdinal(dom, i) ==
    Cardinality({j \in 0 .. i - 1 : ~Axis(dom, j).bcast})

StagedReferenceAxes ==
    {j \in Positions(domains[fusion.reference_tv]) :
        /\ ~Axis(domains[fusion.reference_tv], j).bcast
        /\ Axis(domains[fusion.reference_tv], j).red
        /\ Axis(domains[fusion.reference_tv], j).rf}

StagedReferenceOrdinals ==
    {NonBroadcastOrdinal(domains[fusion.reference_tv], j) :
        j \in StagedReferenceAxes}

AfterRFactor ==
    pc \in {"parallelize", "unroll", "strip", "allreduce", "remove", "inline",
            "returned"}

\* C7: once the staging loop is over, a reduction node other than the
\* original one which is not a grouped reduction has been staged, when the
\* reference is not the original node, at exactly the raw positions of its
\* non-broadcast axes whose ordinal among its non-broadcast axes is the
\* ordinal of a staged (reduction and rfactor) axis of the reference among
\* the reference's non-broadcast axes, one position per staged axis of the
\* reference and none of a broadcast axis; the original node, the grouped
\* reductions and, when the reference is the original node, all nodes have
\* not been staged.
C7_StagedAtMatchingPositions ==
    AfterRFactor =>
        \A tv \in Range(fusion.reduction_tvs) :
            IF \/ fusion.reference_tv = fusion.reduction_tv
               \/ tv = fusion.reduction_tv
               \/ tv \in fusion.grouped
            THEN ~rfactored[tv].called
            ELSE LET axes == rfactored[tv].axes
                     dom == rfactored[tv].domain
                 IN  /\ rfactored[tv].called
                     /\ Range(axes) =
                            {i \in Positions(dom) :
                                /\ ~Axis(dom, i).bcast
                                /\ NonBroadcastOrdinal(dom, i)
                                        \in StagedReferenceOrdinals}
                     /\ Len(axes) = Cardinality(StagedReferenceAxes)
                     /\ \A k \in 1 .. Len(axes) :
                            /\ axes[k] \in Positions(dom)
                            /\ ~Axis(dom, axes[k]).bcast
                            /\ Axis(dom, axes[k]).red

\* a node with broadcast axes of its own was staged at positions that are
\* not the positions of the staged axes of a reference that has a broadcast
\* axis too, next to a grouped reduction that was left alone
C7_Witness ==
    /\ Returned
    /\ fusion.reference_tv # fusion.reduction_tv
    /\ rfactored["T1"].called
    /\ Range(rfactored["T1"].axes) # StagedReferenceAxes
    /\ \E j \in Positions(domains[fusion.reference_tv]) :
            Axis(domains[fusion.reference_tv], j).bcast
    /\ \E i \in Positions(rfactored["T1"].domain) :
            Axis(rfactored["T1"].domain, i).bcast
    /\ "T2" \in fusion.grouped
    /\ ~rfactored["T2"].called

ParallelTypesOf(dom) == [k \in 1 .. Len(dom) |-> dom[k].pt]

\* the nodes the strip / regroup loop handles
Handled == {fusion.reference_tv, fusion.reduction_tv}

SiblingsAgree(doms) ==
    \A tv \in Handled :
        \A sibling \in fusion.siblings[tv] :
            ParallelTypesOf(doms[sibling]) = ParallelTypesOf(doms[tv])

\* what a step of the driver does to the nodes handled and their siblings
MirroredStep ==
    pc \in {"strip", "allreduce", "remove", "inline"} =>
        /\ SiblingsAgree(domains) => SiblingsAgree(domains')
        /\ \A tv \in Handled :
            \A k \in 1 .. Len(domains[tv]) :
                /\ domains'[tv][k].pt # domains[tv][k].pt
                        => domains'[tv][k].pt \in {"Serial", "Group"}
                /\ \A sibling \in fusion.siblings[tv] :
                    /\ domains'[tv][k].pt # domains[tv][k].pt
                            => domains'[sibling][k].pt = domains'[tv][k].pt
                    /\ domains'[sibling][k].pt # domains[sibling][k].pt
                            => domains'[tv][k].pt # domains[tv][k].pt

\* C9: in every step from the strip / regroup step to the return, siblings
\* that had the same ordered list of parallel assignments as their node
\* still have it after the step; an axis of the reference or the original
\* reduction node changes only to serial or group, the axis at the same
\* position of every sibling then has the same assignment, and a sibling
\* axis changes only where the axis of the node changed.
C9_SiblingMirroring ==
    [][MirroredStep]_vars

\* the vectorized axis of the reduction node and of its sibling have become
\* group, the one of the reference and its sibling serial
C9_Witness ==
    /\ pc = "allreduce"
    /\ SiblingsAgree(domains)
    /\ fusion.reference_tv # fusion.reduction_tv
    /\ \E sibling \in fusion.siblings[fusion.reduction_tv] :
        \E k \in 1 .. Len(domains[sibling]) : domains[sibling][k].pt = "Group"
    /\ \E sibling \in fusion.siblings[fusion.reference_tv] :
        \A k \in 1 .. Len(domains[sibling]) :
            domains[sibling][k].pt \notin UnrollTypes \cup {"Group"}

\* a grid all-reduce: in local memory, and a block-level parallel dimension
\* of one of its reduction axes parallelizes an axis of a broadcast that
\* uses it
GridAllreduceNode(tv) ==
    /\ tv \in fusion.local
    /\ \E pt \in BlockDims :
        /\ \E j \in 1 .. Len(domains[tv]) :
                domains[tv][j].red /\ domains[tv][j].pt = pt
        /\ \E bcast_tv \in fusion.uses[tv] :
            \E k \in 1 .. Len(domains[bcast_tv]) : domains[bcast_tv][k].pt = pt

OtherAllreduceNodes ==
    {tv \in Range(fusion.reduction_tvs) \ {fusion.reduction_tv} :
        GridAllreduceNode(tv)}

\* every axis of tv mapped to a group axis of the original reduction node
\* is group
GroupedLikeReduction(tv) ==
    \A k \in 1 .. Len(domains[tv]) :
        \A j \in 1 .. Len(domains[fusion.reduction_tv]) :
            (/\ domains[tv][k].root # -1
             /\ domains[fusion.reduction_tv][j].root = domains[tv][k].root
             /\ domains[fusion.reduction_tv][j].pt = "Group")
                => domains[tv][k].pt = "Group"

HasGroupAxis(tv) ==
    \E k \in 1 .. Len(domains[tv]) : domains[tv][k].pt = "Group"

\* C10 as stated: for every parameter combination, after the driver has
\* returned every grid all-reduce node other than the original reduction
\* node was handed to the propagation of group from the original reduction
\* node and has its group assignments.
C10_GroupPropagatedAlways ==
    Returned =>
        \A tv \in OtherAllreduceNodes :
            InSeq(tv, allreduce_tvs) /\ GroupedLikeReduction(tv)

\* C10 (amended): when some unroll factor of the parameters is greater than
\* one, the nodes handed to the propagation of group are exactly the grid
\* all-reduce nodes other than the original reduction node, and each has
\* the group assignments of the original reduction node; when none is, no
\* detection is made, no node is handed over and no axis of the graph is
\* group.
C10_GroupPropagatedWhenUnrolled ==
    Returned =>
        IF isUnrolled(rparams)
        THEN /\ Range(allreduce_tvs) = OtherAllreduceNodes
             /\ \A tv \in OtherAllreduceNodes : GroupedLikeReduction(tv)
        ELSE /\ allreduce_tvs = << >>
             /\ \A tv \in DOMAIN domains : ~HasGroupAxis(tv)

\* a grid all-reduce node that has received a group axis
C10_Witness ==
    /\ Returned
    /\ isUnrolled(rparams)
    /\ \E tv \in OtherAllreduceNodes : HasGroupAxis(tv)
    /\ \E tv \in Range(fusion.reduction_tvs) \ OtherAllreduceNodes :
            tv # fusion.reduction_tv

(***************************************************************************)
(*                Properties of projectPersistentBuffers                   *)
(***************************************************************************)
Projected == pc = "projected"

\* the nodes without a reduction axis from which a node of reached is
\* reached through nodes without a reduction axis
RECURSIVE ReductionFreeUpstream(_, _)
ReductionFreeUpstream(g, reached) ==
    LET more == {n \in DOMAIN g :
                    /\ ~g[n].has_reduction
                    /\ \E m \in reached : n \in Inputs(g, m)}
    IN  IF more \subseteq reached THEN reached
        ELSE ReductionFreeUpstream(g, reached \cup more)

\* the direct uses of buffer on a dependency chain to a resolution point
\* that has no node with a reduction axis
EligibleUses(g, buffer, resolution_points) ==
    IF g[buffer].has_reduction THEN {}
    ELSE Uses(g, buffer)
         \cap ReductionFreeUpstream(
                g, {t \in Range(resolution_points) : ~g[t].has_reduction})

DummyNodes(g) == {n \in DOMAIN g : g[n].kind = "dummy"}

\* use consumes replicate wherever it consumed buffer, and is otherwise as
\* it was
ConsumesInstead(use, buffer, replicate) ==
    /\ graph'[use].has_reduction = graph[use].has_reduction
    /\ Len(graph'[use].inputs) = Len(graph[use].inputs)
    /\ \A k \in 1 .. Len(graph[use].inputs) :
            graph'[use].inputs[k] =
                IF graph[use].inputs[k] = buffer THEN replicate
                ELSE graph[use].inputs[k]

ProjectedStep ==
    (pc = "project" /\ buffer_i' = buffer_i + 1) =>
        LET buffer == persistent_info.persistent_buffers[buffer_i + 1]
            resolution_points ==
                persistent_info.persistent_buffer_resolution_points[buffer_i + 1]
            eligible ==
                IF InSeq(buffer, persistent_info.projectable_persistent_buffers)
                THEN EligibleUses(graph, buffer, resolution_points)
                ELSE {}
            made == DOMAIN graph' \ DOMAIN graph
            scaffolds == DummyNodes(graph') \ DummyNodes(graph)
            replicates == {graph'[d].inputs[1] : d \in scaffolds}
        IN  /\ DOMAIN graph \subseteq DOMAIN graph'
            /\ scaffolds \subseteq made
            /\ Cardinality(scaffolds) = Cardinality(eligible)
            /\ Cardinality(replicates) = Cardinality(eligible)
            /\ \A d \in scaffolds :
                    /\ Len(graph'[d].inputs) = 2
                    /\ graph'[d].inputs[2] = buffer
            /\ \A r \in replicates :
                    /\ r \in made
                    /\ graph'[r].kind = "recomputed"
                    /\ graph'[r].of = buffer
                    /\ Cardinality({u \in eligible :
                                        ConsumesInstead(u, buffer, r)}) = 1
            /\ \A u \in eligible :
                    /\ buffer \notin Inputs(graph', u)
                    /\ \E r \in replicates : ConsumesInstead(u, buffer, r)
            /\ \A n \in DOMAIN graph \ eligible : graph'[n] = graph[n]
            /\ Len(dummy_outputs') = Len(dummy_outputs) + Cardinality(scaffolds)
            /\ Range(dummy_outputs') = Range(dummy_outputs) \cup scaffolds

ReturnsTheScaffolds ==
    pc \in {"project", "projected"} =>
        /\ Range(dummy_outputs) = DummyNodes(graph)
        /\ Len(dummy_outputs) = Cardinality(DummyNodes(graph))

\* C8: a round of projectPersistentBuffers for a projectable persistent
\* buffer makes one recomputed duplicate of the buffer and one scaffold node
\* (the sum of the duplicate and the buffer) for each distinct direct use of
\* the buffer that lies on a dependency chain without a reduction node to
\* one of the buffer's resolution points, and rewrites that use to consume
\* its duplicate instead of the buffer; every other node, a use that lies
\* only on chains through a reduction included, is as it was; a round for a
\* non-projectable buffer changes nothing; the list returned holds exactly
\* the scaffold nodes made, each once.
C8_OneDuplicatePerEligibleUse ==
    [][ProjectedStep]_vars /\ []ReturnsTheScaffolds

\* a projectable buffer with two resolution points of which one direct use,
\* a reduction, still consumes the buffer and one direct use consumes the
\* only duplicate made
C8_Witness ==
    /\ Projected
    /\ \E k \in 1 .. Len(persistent_info.persistent_buffers) :
         LET buffer == persistent_info.persistent_buffers[k]
         IN  /\ InSeq(buffer, persistent_info.projectable_persistent_buffers)
             /\ Len(persistent_info.persistent_buffer_resolution_points[k]) = 2
             /\ Cardinality({d \in DummyNodes(graph) : graph[d].of = buffer}) = 1
             /\ \E u \in Uses(graph, buffer) :
                    graph[u].kind = "given" /\ graph[u].has_reduction
             /\ \E d \in DummyNodes(graph) :
                    /\ graph[d].of = buffer
                    /\ Cardinality({u \in Uses(graph, graph[d].inputs[1]) :
                                        graph[u].kind = "given"}) = 1
                    /\ \E u \in Uses(graph, graph[d].inputs[1]) :
                        /\ graph[u].kind = "given"
                        /\ Cardinality(
                              {t \in Range(
                                  persistent_info
                                    .persistent_buffer_resolution_points[k]) :
                                  DependencyChains(graph, u, t) # {}}) = 2

(***************************************************************************)
(*        Properties of the grid all-reduce detection (lines 500-509)      *)
(***************************************************************************)
\* the detection and the propagation of group have run
AfterGroupAllreduce ==
    pc \in {"remove", "inline", "returned"} /\ isUnrolled(rparams)

\* what the detection of lines 501-505 selects in the present graph
DetectedAgain ==
    LET Selected(tv) ==
            tv # fusion.reduction_tv /\ isGridAllreduce(domains, tv)
    IN  SelectSeq(fusion.reduction_tvs, Selected)

SecondRunChangesNothing ==
    AfterGroupAllreduce =>
        /\ DetectedAgain = allreduce_tvs
        /\ parallelizeAllLike(domains, fusion.reduction_tv,
                              Range(DetectedAgain), {"Group"}) = domains

\* the step of lines 500-509 writes the nodes it selected and no other
DetectionStep ==
    (pc = "allreduce" /\ pc' = "remove") =>
        /\ fusion' = fusion
        /\ \A tv \in DOMAIN domains \ Range(allreduce_tvs') :
                domains'[tv] = domains[tv]

\* C11: on a graph on which the detection of grid all-reduces and the
\* propagation of group from the original reduction node have run, the
\* detection run again selects the same reduction nodes and the propagation
\* run again changes no axis; the detection step itself changes no node
\* other than by the propagation to the nodes it selected.
C11_DetectionIdempotent ==
    []SecondRunChangesNothing /\ [][DetectionStep]_vars

\* the detection has selected a node and the propagation has made one of
\* its axes group
C11_Witness ==
    /\ pc = "remove"
    /\ isUnrolled(rparams)
    /\ allreduce_tvs # << >>
    /\ \E tv \in Range(allreduce_tvs) : HasGroupAxis(tv)

(***************************************************************************)
(*     Properties of the inner reduction layout (lines 129-183)            *)
(***************************************************************************)
\* the splits are over and no assertion has failed: sort_input is the node
\* as the splits left it
SplitsDone == sort_input # << >>

\* the axes split from the inner reduction axis, outermost first
InnerReductionAxes(tv) ==
    LET part == Ascending(InnerReductionPart(tv))
    IN  [k \in 1 .. Len(part) |-> Axis(tv, part[k])]

Entry(present, name, pt) ==
    IF present THEN << [name |-> name, pt |-> pt] >> ELSE << >>

\* [grid-split, persistent-buffer or remainder, unswitch, unroll,
\* thread-dim, vectorize], the entries that the parameters do not ask for
\* left out.  Without persistence a grid dimension that is not split off is
\* bound to the remainder axis itself.
ListedInnerLayout(r) ==
    LET unrolled ==
            ~r.vectorize_inner_reduction /\ r.unroll_factor_inner_reduction > 1
        grid_split ==
            /\ r.cross_grid_inner_reduction
            /\ (r.persistent_kernel \/ r.split_grid_dim_inner_reduction)
        bound_remainder ==
            /\ r.cross_grid_inner_reduction
            /\ ~r.persistent_kernel
            /\ ~r.split_grid_dim_inner_reduction
    IN  Entry(grid_split, "grid-split", r.grid_dim_inner_reduction)
        \o Entry(r.persistent_kernel, "persistent-buffer", "Serial")
        \o Entry(~r.persistent_kernel, "remainder",
                 IF bound_remainder THEN r.grid_dim_inner_reduction
                 ELSE "Serial")
        \o Entry(TRUE, "unswitch", "Unswitch")
        \o Entry(unrolled, "unroll", "Unroll")
        \o Entry(r.persistent_kernel \/ r.cross_block_inner_reduction,
                 "thread-dim", r.block_dim_inner_reduction)
        \o Entry(r.vectorize_inner_reduction, "vectorize", "Vectorize")

\* C12: outside outer grid persistence, once the splits are made the axes
\* split from the inner reduction axis are next to each other and are,
\* outermost first, [grid-split, persistent-buffer or remainder, unswitch,
\* unroll, thread-dim, vectorize] without the entries not asked for: the
\* axis given the block dimension is directly outside the vectorized axis,
\* or innermost when there is none; there is an unroll axis only when the
\* reduction is not vectorized; there is exactly one unswitch axis and its
\* extent is one.
C12_InnerReductionLayout ==
    (SplitsDone /\ ~OuterGridPersistence) =>
        LET axes == InnerReductionAxes(sort_input)
            listed == ListedInnerLayout(rparams)
            part == InnerReductionPart(sort_input)
            n == Len(axes)
            Named(name) == {k \in 1 .. Len(listed) : listed[k].name = name}
        IN  /\ n = Len(listed)
            /\ \A i \in part : \A j \in part :
                    \A m \in Positions(sort_input) : (i < m /\ m < j) => m \in part
            /\ \A k \in 1 .. n :
                /\ axes[k].red
                /\ axes[k].pt = listed[k].pt
                /\ (axes[k].pt = "Unswitch") <=> (listed[k].name = "unswitch")
                /\ (axes[k].pt = "Unroll") <=> (listed[k].name = "unroll")
                /\ (axes[k].pt = "Vectorize") <=> (listed[k].name = "vectorize")
                /\ listed[k].name = "unswitch" => axes[k].one /\ axes[k].const
            /\ Cardinality(Named("unswitch")) = 1
            /\ Named("vectorize") \subseteq {n}
            /\ Named("thread-dim") \subseteq
                    {IF rparams.vectorize_inner_reduction THEN n - 1 ELSE n}
            /\ Named("unroll") # {} => ~rparams.vectorize_inner_reduction

\* without persistence, a grid dimension split off, the remainder, the
\* unswitch, an unroll and a block dimension
C12_Witness ==
    /\ Completed
    /\ ~rparams.persistent_kernel
    /\ rparams.cross_grid_inner_reduction
    /\ rparams.split_grid_dim_inner_reduction
    /\ rparams.cross_block_inner_reduction
    /\ rparams.block_dim_inner_reduction = "TIDy"
    /\ rparams.grid_dim_inner_reduction = "BIDy"
    /\ ~rparams.vectorize_inner_reduction
    /\ rparams.unroll_factor_inner_reduction > 1
    /\ Len(InnerReductionAxes(sort_input)) = 5

(***************************************************************************)
(*        Properties of the order of equivalent axes (lines 609-619)       *)
(***************************************************************************)
\* the pairs of positions, declared order, of axes with the same sort key
Ties(tv) ==
    {p \in Positions(tv) \X Positions(tv) :
        p[1] < p[2] /\ idPos(Axis(tv, p[1])) = idPos(Axis(tv, p[2]))}

\* C13: two axes of the node with the same ordering class keep their
\* declared relative order in the reorder of sortAndRFactor, so that the
\* resulting order is fixed by the axis list alone.
C13_TiesKeepDeclaredOrder ==
    Sorted =>
        \A p \in Ties(sort_input) : reorder_map[p[1]] < reorder_map[p[2]]

\* two axes with the same sort key have been through the reorder
C13_Witness ==
    /\ Sorted
    /\ Ties(sort_input) # {}
    /\ \E p \in Ties(sort_input) : Axis(sort_input, p[1]) # Axis(sort_input, p[2])

(***************************************************************************)
(*          Properties of the staged axes (lines 635-663)                  *)
(***************************************************************************)
\* sortAndRFactor has returned
Staged == pc \in {"sorted", "done"}

ReductionPositions(tv) == {i \in Positions(tv) : Axis(tv, i).red}

\* the reduction axes that are not bound to a hardware dimension
StagingCandidates(tv) == {i \in ReductionPositions(tv) : ~isThread(Axis(tv, i))}

UnswitchOfExtentOne(tv) ==
    {i \in Positions(tv) : Axis(tv, i).pt = "Unswitch" /\ Axis(tv, i).one}

\* C14: the axes sortAndRFactor stages are, when every reduction axis of
\* the reordered node is a candidate (a reduction axis not bound to a
\* hardware dimension), the candidates that are not unswitch axes of extent
\* one, and otherwise all the candidates, unswitch axes of extent one
\* included; each is staged once, and no iteration axis and no reduction
\* axis bound to a hardware dimension is staged.
C14_StagedSet ==
    Staged =>
        LET staged == Range(rfactor_axes)
            candidates == StagingCandidates(canonical_tv)
        IN  /\ Len(rfactor_axes) = Cardinality(staged)
            /\ staged =
                IF candidates = ReductionPositions(canonical_tv)
                THEN candidates \ UnswitchOfExtentOne(canonical_tv)
                ELSE candidates
            /\ \A i \in staged :
                /\ Axis(canonical_tv, i).red
                /\ ~isThread(Axis(canonical_tv, i))
                /\ Axis(reduction_rf_tv, i).red
                /\ Axis(reduction_rf_tv, i).rf

\* a reduction axis bound to a hardware dimension next to an unswitch axis
\* of extent one, which is staged
C14_Witness ==
    /\ Sorted
    /\ StagingCandidates(canonical_tv) # ReductionPositions(canonical_tv)
    /\ Range(rfactor_axes) \cap UnswitchOfExtentOne(canonical_tv) # {}

(***************************************************************************)
(*   Properties of the staging of a scheduled node (lines 105-261,         *)
(*   635-663)                                                              *)
(***************************************************************************)
\* C16: for every parameter combination for which scheduleReductionTV
\* reaches sortAndRFactor, the axes staged are not none and are not all the
\* reduction axes of the reordered node.
C16_StagedProperSubset ==
    (Staged /\ rparams # NoParams) =>
        /\ rfactor_axes # << >>
        /\ ReductionPositions(canonical_tv) \ Range(rfactor_axes) # {}

\* a scheduled 3D node with nothing bound to a hardware dimension: only the
\* unswitch axis is left unstaged
C16_Witness ==
    /\ Completed
    /\ rparams # NoParams
    /\ rparams.schedule_3D
    /\ StagingCandidates(canonical_tv) = ReductionPositions(canonical_tv)
    /\ Cardinality(ReductionPositions(canonical_tv) \ Range(rfactor_axes)) = 1
    /\ Len(rfactor_axes) >= 2

(***************************************************************************)
(*      Properties of the strip / regroup step (lines 469-498)             *)
(***************************************************************************)
\* the reference and the original reduction node, when not among the nodes
\* that keep their unrolling
Stripped == Handled \ are_unrolled

CarriesUnroll(dom) == \E k \in 1 .. Len(dom) : dom[k].pt \in UnrollTypes

\* what the step makes of the parallel type pt of an axis of tv
StrippedType(tv, pt) ==
    IF pt \notin UnrollTypes THEN pt
    ELSE IF /\ pt = "Vectorize"
            /\ OuterGridPersistence
            /\ InSeq(tv, fusion.reduction_tvs)
    THEN "Group"
    ELSE "Serial"

StripStep ==
    (pc = "strip" /\ pc' = "allreduce") =>
        \A tv \in Stripped :
            /\ Len(domains'[tv]) = Len(domains[tv])
            /\ \A k \in 1 .. Len(domains[tv]) :
                domains'[tv][k] =
                    [domains[tv][k] EXCEPT
                        !.pt = StrippedType(tv, domains[tv][k].pt)]

NoUnrollLeft ==
    (Returned /\ isUnrolled(rparams)) =>
        \A tv \in Stripped : ~CarriesUnroll(domains[tv])

=============================================================================
